---- MODULE Spec2Model ----
(***************************************************************************)
(* A model of the awaves surf-forecast backend: the in-process snapshot    *)
(* cache of SurfDynamoDBService, the query engine of SurfDataRepository,   *)
(* the saved-list store with its cache, and the ingestion Lambda with its  *)
(* change detection.                                                       *)
(*                                                                         *)
(* Encodings used throughout:                                              *)
(*   - a surfTimestamp "YYYY-MM-DDTHH:MM:00Z" is the integer               *)
(*     date * 10000 + HH * 100 + MM; string order on timestamps of equal   *)
(*     width is integer order, the date prefix ts[:10] is ts \div 10000,   *)
(*     and int(ts[11:16].replace(":", "")) is ts % 10000;                  *)
(*   - a clock value is an integer number of seconds;                      *)
(*   - a metric is an integer number of hundred-thousandths (fixed point),  *)
(*     so that rounding to four decimals is rounding to a multiple of 10.  *)
(***************************************************************************)
EXTENDS Integers, Sequences, FiniteSets, TLC

\* ------------------------------------------------------------------ bounds
NLocs == 2
NCallers == 2
TickStep == 200
MaxTime == 600
MaxCalls == 3
MaxLatestCalls == 2
MaxSpots == 3
NLocationIds == 11
NUsers == 2
MaxRuns == 2
MaxBatch == 3
FlushAmount == 3

Locs == 1 .. NLocs
Dates == {1, 2}
Callers == 1 .. NCallers

\* Times of day (HHMM) that forecast rows carry, and the time arguments of queries.
TimesOfDay == {558, 610}
NoTime == -1
NoKey == <<0, NoTime>>
\* A time argument whose hour part is not an integer (the router passes the
\* query string through unvalidated).
BadTime == -3
TimeArgs == {NoTime, 600}
Scores == {1, 2}

MkTs(d, hhmm) == d * 10000 + hhmm
DateOf(ts) == ts \div 10000
HHMM(ts) == ts % 10000
Hour(hhmm) == hhmm \div 100
Abs(x) == IF x < 0 THEN -x ELSE x

\* Forecast items as the store holds them: key (loc, ts), INTERMEDIATE/flat score.
Items == [loc : Locs, ts : {MkTs(d, t) : d \in Dates, t \in TimesOfDay}, score : Scores]

\* ------------------------------------------------------------- variables
VARIABLES
  \* the key attributes of the forecast table: LocationId / SurfTimestamp
  \* ("pascal") or locationId / surfTimestamp ("camel")
  key_schema,
  \* the surf_info table (ForecastStore) and the monotonic clock
  ddb, now,
  \* SurfDynamoDBService module globals
  scan_cache, scan_cache_time, date_index,
  spots_for_date_cache, spots_for_date_cache_time,
  \* one coroutine per caller of SurfDynamoDBService.get_spots_for_date
  pc, req, all_items, page,
  \* history: number of snapshot installs, the install each cached list was
  \* computed under, and the last list returned to each caller
  gen, entryGen, resp,
  \* the locations table, and SurfDataRepository's module globals
  locations_table, repo_cache, repo_cache_time,
  \* the coroutine of one caller of SurfDataRepository.get_spots_for_date
  rpc, rkey, rspots, rfailed, calls,
  \* history: when each cached list was stored, and the last list returned
  computedAt, rresp,
  \* the awaves:surf:all_spots entry, the state of the cache client, the
  \* repository's _latest_cache globals, and the last _get_all_spots_raw call
  all_spots_cache, cache_client, repo_latest_cache, repo_latest_cache_time, lresp,
  \* the last get_nearby_spots call: the spots it was given, its arguments, its result
  nearby,
  \* per request: the query_one coroutines waiting for the semaphore of their
  \* call and those holding it
  fan,
  \* the saved_list table and the awaves:saved:{userId} cache entries
  saved_list, saved_cache,
  \* the coroutines of the callers of the save_item resolver, and the last
  \* outcome of each saved-list operation
  spc, sitem, sres,
  \* the ingestion Lambda: awaves:surf:latest:{locationId} entries, position,
  \* rows of the run, latest_per_location, and the locals of change detection
  latest_cache, hpc, hrows, latest_per_location, todo, saved_items, flagged,
  affected_users, runs, r_ok, hbefore,
  \* history of the run: updates performed, cache entries deleted, outcome
  hupdates, hdeleted, hresult, flaggedDone,
  \* the coroutine of one caller of the get_saved_items resolver
  gpc, guser, gitems, gexpect, gresp,
  \* the inputs and the verdict of one examination of a saved selection
  d_old, d_delta, d_done, d_flag,
  \* the users table, its user_id sequence, and the register call of each caller
  users, user_id_seq, reg

svcVars == <<scan_cache, scan_cache_time, date_index, spots_for_date_cache,
             spots_for_date_cache_time, pc, req, all_items, page, gen, entryGen, resp>>
repoVars == <<locations_table, repo_cache, repo_cache_time, rpc, rkey, rspots, rfailed, calls,
              computedAt, rresp, all_spots_cache, cache_client, repo_latest_cache,
              repo_latest_cache_time, lresp, nearby, fan>>
savedVars == <<saved_list, saved_cache>>
apiVars == <<spc, sitem, sres>>
ingestVars == <<latest_cache, hpc, hrows, latest_per_location, todo, saved_items, flagged,
                affected_users, runs, r_ok, hbefore, hupdates, hdeleted, hresult, flaggedDone>>
readerVars == <<gpc, guser, gitems, gexpect, gresp>>
detVars == <<d_old, d_delta, d_done, d_flag>>
userVars == <<users, user_id_seq, reg>>
envVars == <<ddb, now, key_schema>>
vars == <<envVars, svcVars, repoVars, savedVars, apiVars, ingestVars, readerVars, detVars, userVars>>
notSvc == <<repoVars, savedVars, apiVars, ingestVars, readerVars, detVars, userVars>>
notRepo == <<svcVars, savedVars, apiVars, ingestVars, readerVars, detVars, userVars>>

\* ---------------------------------------------------------------- helpers
Put(f, k, v) == [x \in (DOMAIN f) \cup {k} |-> IF x = k THEN v ELSE f[x]]
EmptyMap == [x \in {} |-> 0]

RECURSIVE SeqOfSet(_)
\* The items of a set in the order a Query returns them: ascending sort key.
SeqOfSet(S) ==
  IF S = {} THEN << >>
  ELSE LET m == CHOOSE x \in S : \A y \in S : x.ts <= y.ts
       IN << m >> \o SeqOfSet(S \ {m})

\* Index of the entry of seq s for location l, 0 when there is none.
PosOfLoc(s, l) ==
  IF \E i \in 1 .. Len(s) : s[i].loc = l
  THEN CHOOSE i \in 1 .. Len(s) : s[i].loc = l
  ELSE 0

RECURSIVE InsertDesc(_, _)
\* Insert x into a list sorted by descending score, after every entry whose
\* score is >= x.score (what a stable sort with reverse=True does).
InsertDesc(sorted, x) ==
  IF sorted = << >> THEN << x >>
  ELSE IF Head(sorted).score >= x.score
       THEN << Head(sorted) >> \o InsertDesc(Tail(sorted), x)
       ELSE << x >> \o sorted

RECURSIVE SortByScoreDesc(_)
SortByScoreDesc(s) ==
  IF s = << >> THEN << >>
  ELSE InsertDesc(SortByScoreDesc(SubSeq(s, 1, Len(s) - 1)), s[Len(s)])

\* ------------------------------------------------ SurfDynamoDBService
SCAN_CACHE_TTL == 300

\* One page of the paginated scan: the items of one partition of the table.
ScanPage(l) == SeqOfSet({it \in ddb : it.loc = l})

\* new_index: the items of a scan grouped by date prefix, in scan order.
BuildDateIndex(items) ==
  [d \in {DateOf(items[i].ts) : i \in 1 .. Len(items)} |->
     SelectSeq(items, LAMBDA it : DateOf(it.ts) = d)]

\* The one-per-location reduction of get_spots_for_date (lines 182-201).
SvcCloser(item, existing, time) ==
  IF time # NoTime
  THEN Abs(HHMM(item.ts) - time) < Abs(HHMM(existing.ts) - time)
  ELSE item.ts > existing.ts

RECURSIVE SvcLocationMap(_, _, _)
SvcLocationMap(filtered, time, acc) ==
  IF filtered = << >> THEN acc
  ELSE LET item == Head(filtered)
           i == PosOfLoc(acc, item.loc)
           acc2 == IF i = 0 THEN Append(acc, item)
                   ELSE IF SvcCloser(item, acc[i], time)
                        THEN [acc EXCEPT ![i] = item]
                        ELSE acc
       IN SvcLocationMap(Tail(filtered), time, acc2)

\* The exact-time filter (lines 170-179): items whose timestamp starts with
\* "{date}T{time}"; kept only when it matches something.
SvcTimeFilter(filtered, time) ==
  LET time_matched == SelectSeq(filtered, LAMBDA it : HHMM(it.ts) = time)
  IN IF time # NoTime /\ time_matched # << >> THEN time_matched ELSE filtered

SvcComputeSpots(index, date, time) ==
  LET filtered == IF date \in DOMAIN index THEN index[date] ELSE << >>
  IN SortByScoreDesc(SvcLocationMap(SvcTimeFilter(filtered, time), time, << >>))

\* The result-cache check of get_spots_for_date (lines 153-159).
SvcCacheHit(key) ==
  /\ spots_for_date_cache_time >= scan_cache_time
  /\ scan_cache_time > 0
  /\ key \in DOMAIN spots_for_date_cache

\* The snapshot freshness check of _scan_all_items (line 76).
SvcSnapshotFresh ==
  scan_cache # << >> /\ (now - scan_cache_time) < SCAN_CACHE_TTL

\* What a refresh does to the result cache (lines 103-105); a refresh that did
\* not clear it would keep cache, time and tags as they are.
RefreshKeepsResultCache ==
  [cache |-> spots_for_date_cache, time |-> spots_for_date_cache_time,
   tags |-> entryGen]
RefreshedResultCache ==
  [cache |-> EmptyMap, time |-> 0, tags |-> EmptyMap]

\* Lines 164-212 of get_spots_for_date, run without suspension once
\* _scan_all_items has returned: compute from the date index, cache, return.
SvcFinish(c, key, index, rcache, rtime, tags, g, scan_failed) ==
  LET filtered == IF key[1] \in DOMAIN index THEN index[key[1]] ELSE << >>
      spots == SvcComputeSpots(index, key[1], key[2])
  IN IF filtered = << >>
     THEN /\ spots_for_date_cache' = rcache
          /\ spots_for_date_cache_time' = rtime
          /\ entryGen' = tags
          /\ resp' = [hit |-> FALSE, from |-> g, at |-> g, scan_failed |-> scan_failed]
     ELSE /\ spots_for_date_cache' = Put(rcache, key, spots)
          /\ spots_for_date_cache_time' = now
          /\ entryGen' = Put(tags, key, g)
          /\ resp' = [hit |-> FALSE, from |-> g, at |-> g, scan_failed |-> scan_failed]

\* get_spots_for_date(date, time) up to its first suspension: a cache hit
\* returns; a miss with a fresh snapshot computes and returns; a miss with an
\* expired snapshot starts the scan.
SvcCall(c, date, time) ==
  /\ pc[c] = "idle"
  /\ LET key == <<date, time>> IN
     IF SvcCacheHit(key)
     THEN /\ resp' = [hit |-> TRUE, from |-> entryGen[key], at |-> gen, scan_failed |-> FALSE]
          /\ UNCHANGED <<scan_cache, scan_cache_time, date_index, spots_for_date_cache,
                         spots_for_date_cache_time, pc, req, all_items, page, gen, entryGen>>
     ELSE IF SvcSnapshotFresh
     THEN /\ SvcFinish(c, key, date_index, spots_for_date_cache,
                       spots_for_date_cache_time, entryGen, gen, FALSE)
          /\ UNCHANGED <<scan_cache, scan_cache_time, date_index, pc, req, all_items,
                         page, gen>>
     ELSE /\ pc' = [pc EXCEPT ![c] = "scan"]
          /\ req' = [req EXCEPT ![c] = key]
          /\ all_items' = [all_items EXCEPT ![c] = << >>]
          /\ page' = [page EXCEPT ![c] = 1]
          /\ UNCHANGED <<scan_cache, scan_cache_time, date_index, spots_for_date_cache,
                         spots_for_date_cache_time, gen, entryGen, resp>>
  /\ UNCHANGED <<envVars, notSvc>>

\* A page of the scan arrives that is not the last one (lines 84-88).
SvcScanPage(c) ==
  /\ pc[c] = "scan"
  /\ page[c] < NLocs
  /\ all_items' = [all_items EXCEPT ![c] = @ \o ScanPage(page[c])]
  /\ page' = [page EXCEPT ![c] = @ + 1]
  /\ UNCHANGED <<scan_cache, scan_cache_time, date_index, spots_for_date_cache,
                 spots_for_date_cache_time, pc, req, gen, entryGen, resp>>
  /\ UNCHANGED <<envVars, notSvc>>

\* The last page arrives: install snapshot and index, clear the result cache
\* (lines 90-108), then finish get_spots_for_date.
SvcScanDone(c) ==
  /\ pc[c] = "scan"
  /\ page[c] = NLocs
  /\ LET items == all_items[c] \o ScanPage(page[c])
         index == BuildDateIndex(items)
         rc == RefreshedResultCache
     IN /\ key_schema = "pascal" \/ items = << >>
        /\ scan_cache' = items
        /\ scan_cache_time' = now
        /\ date_index' = index
        /\ gen' = gen + 1
        /\ SvcFinish(c, req[c], index, rc.cache, rc.time, rc.tags, gen + 1, FALSE)
  /\ pc' = [pc EXCEPT ![c] = "idle"]
  /\ req' = [req EXCEPT ![c] = NoKey]
  /\ all_items' = [all_items EXCEPT ![c] = << >>]
  /\ page' = [page EXCEPT ![c] = 1]
  /\ UNCHANGED <<envVars, notSvc>>

\* The last page arrives and an item of it has no SurfTimestamp attribute:
\* the snapshot and its time are assigned (lines 90-91), item["SurfTimestamp"]
\* raises while the index is built (line 96), the except of line 109 returns
\* the snapshot, and get_spots_for_date goes on with the index as it is.
SvcIndexFail(c) ==
  /\ pc[c] = "scan"
  /\ page[c] = NLocs
  /\ LET items == all_items[c] \o ScanPage(page[c])
     IN /\ key_schema = "camel" /\ items # << >>
        /\ scan_cache' = items
        /\ scan_cache_time' = now
        /\ gen' = gen + 1
        /\ SvcFinish(c, req[c], date_index, spots_for_date_cache,
                     spots_for_date_cache_time, entryGen, gen + 1, FALSE)
  /\ pc' = [pc EXCEPT ![c] = "idle"]
  /\ req' = [req EXCEPT ![c] = NoKey]
  /\ all_items' = [all_items EXCEPT ![c] = << >>]
  /\ page' = [page EXCEPT ![c] = 1]
  /\ UNCHANGED date_index
  /\ UNCHANGED <<envVars, notSvc>>

\* The scan raises (lines 109-111): the last snapshot, or [], is returned and
\* get_spots_for_date goes on with the index as it is.
SvcScanFail(c) ==
  /\ pc[c] = "scan"
  /\ SvcFinish(c, req[c], date_index, spots_for_date_cache,
               spots_for_date_cache_time, entryGen, gen, TRUE)
  /\ pc' = [pc EXCEPT ![c] = "idle"]
  /\ req' = [req EXCEPT ![c] = NoKey]
  /\ all_items' = [all_items EXCEPT ![c] = << >>]
  /\ page' = [page EXCEPT ![c] = 1]
  /\ UNCHANGED <<scan_cache, scan_cache_time, date_index, gen>>
  /\ UNCHANGED <<envVars, notSvc>>

\* ------------------------------------------------ SurfDataRepository
CACHE_TTL == 300

\* _get_all_location_ids: the ids of the locations table in scan order.
RECURSIVE SeqOfLocs(_)
SeqOfLocs(S) ==
  IF S = {} THEN << >>
  ELSE LET m == CHOOSE x \in S : \A y \in S : x <= y
       IN << m >> \o SeqOfLocs(S \ {m})

\* query_one of _query_by_date: the items of one location whose surfTimestamp
\* begins with the date, in sort-key order.
QueryOneByDate(l, date) ==
  SeqOfSet({it \in ddb : it.loc = l /\ DateOf(it.ts) = date})

\* _query_by_date: the batches concatenated in the order of location_ids; a
\* query that raises contributes [].
RECURSIVE QueryByDate(_, _, _)
QueryByDate(ids, date, failing) ==
  IF ids = << >> THEN << >>
  ELSE (IF Head(ids) \in failing THEN << >> ELSE QueryOneByDate(Head(ids), date))
       \o QueryByDate(Tail(ids), date, failing)

\* time_prefixes: the hours H, H+1, H+2 that do not exceed 23.
RepoTimePrefixes(time) == {h \in {Hour(time) + offset : offset \in 0 .. 2} : h <= 23}

\* A time filter that lets every record of the date through.
RepoNoTimeFilter(filtered, time) == filtered

\* The time filter (lines 319-336), kept only when it matches something; the
\* ValueError of int() on a malformed hour is caught and the filter skipped.
RepoTimeFilter(filtered, time) ==
  IF time \in {NoTime, BadTime} THEN filtered
  ELSE LET time_matched ==
             SelectSeq(filtered, LAMBDA it : Hour(HHMM(it.ts)) \in RepoTimePrefixes(time))
       IN IF time_matched # << >> THEN time_matched ELSE filtered

\* Whether item replaces the entry of its location (lines 347-355).
RepoCloser(item, existing, time) ==
  IF time # NoTime
  THEN Abs(HHMM(item.ts) - time) < Abs(HHMM(existing.ts) - time)
  ELSE item.ts > existing.ts

\* Line 351 converts the time argument with int() outside the try block: it
\* raises ValueError as soon as a location is seen a second time.
RepoRaises(filtered, time) ==
  /\ time = BadTime
  /\ \E i, j \in 1 .. Len(filtered) : i < j /\ filtered[i].loc = filtered[j].loc

\* A reduction that keeps every item: what a missing location_map would give.
RepoKeepAll(filtered, time, acc) == acc \o filtered

RECURSIVE RepoLocationMap(_, _, _)
RepoLocationMap(filtered, time, acc) ==
  IF filtered = << >> THEN acc
  ELSE LET item == Head(filtered)
           i == PosOfLoc(acc, item.loc)
           acc2 == IF i = 0 THEN Append(acc, item)
                   ELSE IF RepoCloser(item, acc[i], time)
                        THEN [acc EXCEPT ![i] = item]
                        ELSE acc
       IN RepoLocationMap(Tail(filtered), time, acc2)

\* The result-cache check of get_spots_for_date (lines 301-307).
RepoCacheHit(key) ==
  /\ repo_cache # EmptyMap
  /\ (now - repo_cache_time) < CACHE_TTL
  /\ key \in DOMAIN repo_cache

NoRResp == [key |-> NoKey, hit |-> FALSE, spots |-> << >>, age |-> 0, failed |-> FALSE,
            raised |-> FALSE]

\* get_spots_for_date(date, time) up to the await of _enrich_with_korean: a
\* cache hit returns (raised: the call ends with an exception); otherwise the location ids are read (ids_fail: the scan
\* raises and [] is used), the date is queried per location (failing: the
\* locations whose query raises) and the items are reduced to one per location.
RepoCall(date, time, ids_fail, failing) ==
  /\ rpc = "idle"
  /\ calls < MaxCalls
  /\ calls' = calls + 1
  /\ LET key == <<date, time>>
         location_ids == IF ids_fail THEN << >> ELSE SeqOfLocs(locations_table)
         filtered == QueryByDate(location_ids, date, failing)
         failed == ids_fail \/ failing # {}
     IN IF RepoCacheHit(key)
        THEN /\ rresp' = [key |-> key, hit |-> TRUE, spots |-> repo_cache[key],
                          age |-> now - computedAt[key], failed |-> FALSE,
                          raised |-> FALSE]
             /\ UNCHANGED <<rpc, rkey, rspots, rfailed>>
        ELSE IF location_ids = << >> \/ filtered = << >>
        THEN /\ rresp' = [key |-> key, hit |-> FALSE, spots |-> << >>, age |-> 0,
                          failed |-> failed, raised |-> FALSE]
             /\ UNCHANGED <<rpc, rkey, rspots, rfailed>>
        ELSE IF RepoRaises(RepoTimeFilter(filtered, time), time)
        THEN /\ rresp' = [key |-> key, hit |-> FALSE, spots |-> << >>, age |-> 0,
                          failed |-> failed, raised |-> TRUE]
             /\ UNCHANGED <<rpc, rkey, rspots, rfailed>>
        ELSE /\ rpc' = "enrich"
             /\ rkey' = key
             /\ rspots' = RepoLocationMap(RepoTimeFilter(filtered, time), time, << >>)
             /\ rfailed' = failed
             /\ UNCHANGED rresp
  /\ UNCHANGED <<locations_table, repo_cache, repo_cache_time, computedAt, all_spots_cache, cache_client,
                 repo_latest_cache, repo_latest_cache_time, lresp, nearby, fan>>
  /\ UNCHANGED <<envVars, notRepo>>

\* _enrich_with_korean has returned: sort, store under the key, stamp the
\* whole cache with the current time, return (lines 359-366).
RepoStore ==
  /\ rpc = "enrich"
  /\ LET spots == SortByScoreDesc(rspots)
     IN /\ repo_cache' = Put(repo_cache, rkey, spots)
        /\ repo_cache_time' = now
        /\ computedAt' = Put(computedAt, rkey, now)
        /\ rresp' = [key |-> rkey, hit |-> FALSE, spots |-> spots, age |-> 0,
                     failed |-> rfailed, raised |-> FALSE]
  /\ rpc' = "idle"
  /\ rkey' = NoKey
  /\ rspots' = << >>
  /\ rfailed' = FALSE
  /\ UNCHANGED <<locations_table, calls, all_spots_cache, cache_client,
                 repo_latest_cache, repo_latest_cache_time, lresp, nearby, fan>>
  /\ UNCHANGED <<envVars, notRepo>>

\* ------------------------------------------------ _get_all_spots_raw
\* BaseCacheService.get_client: the state of _client / _available after the
\* call, cond being what the call meets: a working cache ("ok"), no CACHE_URL
\* ("nourl"), a connection that fails ("down"), or an operation that raises
\* ("error").  A client once made is kept; without a URL or when the ping
\* fails the service is marked unavailable for good.
ClientAfter(state, cond) ==
  IF state = "unset" THEN (IF cond \in {"nourl", "down"} THEN "unavailable" ELSE "client")
  ELSE state

\* get_all_surf_spots: the cached list, or a miss when there is no client, the
\* key is absent or the GET raises.  A read that let the exception through is
\* the alternative.
ReadLetsErrorThrough(state, cond, entry) ==
  IF ClientAfter(state, cond) = "client" /\ cond = "error"
  THEN [hit |-> FALSE, raised |-> TRUE, spots |-> << >>]
  ELSE [hit |-> ClientAfter(state, cond) = "client" /\ entry.present, raised |-> FALSE,
        spots |-> entry.spots]
GetAllSurfSpots(state, cond, entry) ==
  IF ClientAfter(state, cond) = "client" /\ cond # "error" /\ entry.present
  THEN [hit |-> TRUE, raised |-> FALSE, spots |-> entry.spots]
  ELSE [hit |-> FALSE, raised |-> FALSE, spots |-> << >>]

\* _query_latest_per_location: for each of location_ids, in order, the item
\* of the location with the greatest sort key (ScanIndexForward=False,
\* Limit=1), if it has one; a query that raises gives None, which is dropped.
RECURSIVE QueryOldestPerLocation(_, _)
QueryOldestPerLocation(ids, failing) ==
  IF ids = << >> THEN << >>
  ELSE LET own == {it \in ddb : it.loc = Head(ids)}
           query_one == IF Head(ids) \in failing \/ own = {} THEN << >>
                        ELSE << CHOOSE it \in own : \A o \in own : it.ts <= o.ts >>
       IN query_one \o QueryOldestPerLocation(Tail(ids), failing)
RECURSIVE QueryLatestPerLocation(_, _)
QueryLatestPerLocation(ids, failing) ==
  IF ids = << >> THEN << >>
  ELSE LET own == {it \in ddb : it.loc = Head(ids)}
           query_one == IF Head(ids) \in failing \/ own = {} THEN << >>
                        ELSE << CHOOSE it \in own : \A o \in own : o.ts <= it.ts >>
       IN query_one \o QueryLatestPerLocation(Tail(ids), failing)

NoLResp == [n |-> 0, src |-> "", spots |-> << >>, raised |-> FALSE, rcond |-> "", wcond |-> "",
            ids_fail |-> FALSE, failing |-> {}]

\* _get_all_spots_raw: the distributed cache, then the in-process cache, then
\* the store (location ids, one query per location, sort), whose result is kept
\* in process and offered to the distributed cache.  rcond and wcond are what
\* the read and the write of the distributed cache meet.
GetAllSpotsRaw(rcond, wcond, ids_fail, failing) ==
  /\ rpc = "idle"
  /\ calls < MaxLatestCalls
  /\ calls' = calls + 1
  /\ LET cached == GetAllSurfSpots(cache_client, rcond, all_spots_cache)
         state1 == ClientAfter(cache_client, rcond)
         location_ids == IF ids_fail THEN << >> ELSE SeqOfLocs(locations_table)
         spots == SortByScoreDesc(QueryLatestPerLocation(location_ids, failing))
         answer(src, s) == [n |-> calls + 1, src |-> src, spots |-> s, raised |-> FALSE,
                            rcond |-> rcond, wcond |-> wcond, ids_fail |-> ids_fail,
                            failing |-> failing]
     IN IF cached.raised
        THEN /\ lresp' = [answer("", << >>) EXCEPT !.raised = TRUE]
             /\ cache_client' = state1
             /\ UNCHANGED <<all_spots_cache, repo_latest_cache, repo_latest_cache_time>>
        ELSE IF cached.hit
        THEN /\ lresp' = answer("distributed", cached.spots)
             /\ cache_client' = state1
             /\ UNCHANGED <<all_spots_cache, repo_latest_cache, repo_latest_cache_time>>
        ELSE IF repo_latest_cache # << >> /\ (now - repo_latest_cache_time) < CACHE_TTL
        THEN /\ lresp' = answer("process", repo_latest_cache)
             /\ cache_client' = state1
             /\ UNCHANGED <<all_spots_cache, repo_latest_cache, repo_latest_cache_time>>
        ELSE IF location_ids = << >>
        THEN /\ lresp' = answer("store", << >>)
             /\ cache_client' = state1
             /\ UNCHANGED <<all_spots_cache, repo_latest_cache, repo_latest_cache_time>>
        ELSE /\ lresp' = answer("store", spots)
             /\ repo_latest_cache' = spots
             /\ repo_latest_cache_time' = now
             \* store_all_surf_spots: SETEX when there is a client and it does not raise
             /\ all_spots_cache' = IF ClientAfter(state1, wcond) = "client" /\ wcond # "error"
                                   THEN [present |-> TRUE, spots |-> spots]
                                   ELSE all_spots_cache
             /\ cache_client' = ClientAfter(state1, wcond)
  /\ UNCHANGED <<locations_table, repo_cache, repo_cache_time, rpc, rkey, rspots, rfailed,
                 computedAt, rresp, nearby, fan>>
  /\ UNCHANGED <<envVars, notRepo>>

\* The TTL of the awaves:surf:all_spots entry runs out.
AllSpotsExpire ==
  /\ all_spots_cache.present
  /\ all_spots_cache' = [present |-> FALSE, spots |-> << >>]
  /\ UNCHANGED <<locations_table, repo_cache, repo_cache_time, rpc, rkey, rspots, rfailed,
                 calls, computedAt, rresp, cache_client, repo_latest_cache,
                 repo_latest_cache_time, lresp, nearby, fan>>
  /\ UNCHANGED <<envVars, notRepo>>

\* ------------------------------------------------ per-location fan-out
\* asyncio.Semaphore(20), made anew by every call of
\* _query_latest_per_location and of _query_by_date.
SEMAPHORE == 20

\* A request calls _query_latest_per_location or _query_by_date with the
\* location ids: asyncio.gather starts one query_one per id, each waiting for
\* the semaphore of this call.
FanOutStart(r) ==
  /\ fan[r] = [waiting |-> 0, running |-> 0]
  /\ fan' = [fan EXCEPT ![r] = [waiting |-> NLocationIds, running |-> 0]]
  /\ UNCHANGED <<locations_table, repo_cache, repo_cache_time, rpc, rkey, rspots, rfailed,
                 calls, computedAt, rresp, all_spots_cache, cache_client, repo_latest_cache,
                 repo_latest_cache_time, lresp, nearby>>
  /\ UNCHANGED <<envVars, notRepo>>

\* A query_one of request r enters `async with semaphore` and issues its query.
QueryAcquire(r) ==
  /\ fan[r].waiting > 0
  /\ fan[r].running < SEMAPHORE
  /\ fan' = [fan EXCEPT ![r] = [waiting |-> @.waiting - 1, running |-> @.running + 1]]
  /\ UNCHANGED <<locations_table, repo_cache, repo_cache_time, rpc, rkey, rspots, rfailed,
                 calls, computedAt, rresp, all_spots_cache, cache_client, repo_latest_cache,
                 repo_latest_cache_time, lresp, nearby>>
  /\ UNCHANGED <<envVars, notRepo>>

\* The query of a query_one returns or raises, and the semaphore is released.
QueryRelease(r) ==
  /\ fan[r].running > 0
  /\ fan' = [fan EXCEPT ![r] = [@ EXCEPT !.running = @ - 1]]
  /\ UNCHANGED <<locations_table, repo_cache, repo_cache_time, rpc, rkey, rspots, rfailed,
                 calls, computedAt, rresp, all_spots_cache, cache_client, repo_latest_cache,
                 repo_latest_cache_time, lresp, nearby>>
  /\ UNCHANGED <<envVars, notRepo>>

\* ------------------------------------------------ get_nearby_spots
\* round(_haversine(lat1, lng1, lat2, lng2), 2) for two points of the equator,
\* longitudes in thousandths of a degree, result in hundredths of a km: with
\* both latitudes 0 the formula gives R times the difference of longitude in
\* radians, 111.195 km per degree.
HaversineRounded(lng1, lng2) == (Abs(lng2 - lng1) * 111195 + 5000) \div 10000

\* list.sort(key = distance): ascending and stable.  Leaving the list in the
\* order get_spots_for_date gave is the alternative.
KeepOrder(s) == s
SortByDistance(s) ==
  LET rank(i) == Cardinality({j \in 1 .. Len(s) :
                    \/ s[j].distance < s[i].distance
                    \/ s[j].distance = s[i].distance /\ j < i}) + 1
  IN [k \in 1 .. Len(s) |-> s[CHOOSE i \in 1 .. Len(s) : rank(i) = k]]

\* The lists get_spots_for_date may give: one spot per location, each on the
\* equator at longitude 0, 0.09, -0.09 or 4.497 degrees.
SpotLists ==
  {s \in UNION {[1 .. n -> [loc : 1 .. MaxSpots, lng : {0, 90, -90, 4497}]] :
                  n \in 0 .. MaxSpots} :
     \A i, j \in 1 .. Len(s) : s[i].loc = s[j].loc => i = j}

\* get_nearby_spots(0, lng, limit) over the list spots of get_spots_for_date
\* (lines 419-436): a copy of each spot with its distance, sorted, cut at limit.
GetNearbySpots(lng, limit) ==
  /\ LET spots == nearby.spots
         spots_with_distance ==
           [i \in 1 .. Len(spots) |->
              [loc |-> spots[i].loc, lng |-> spots[i].lng,
               distance |-> HaversineRounded(lng, spots[i].lng)]]
     IN nearby' = [spots |-> spots, lng |-> lng, limit |-> limit, called |-> TRUE,
                   result |-> SubSeq(SortByDistance(spots_with_distance), 1,
                                     IF limit < Len(spots) THEN limit ELSE Len(spots))]
  /\ UNCHANGED <<locations_table, repo_cache, repo_cache_time, rpc, rkey, rspots, rfailed,
                 calls, computedAt, rresp, all_spots_cache, cache_client, repo_latest_cache,
                 repo_latest_cache_time, lresp, fan>>
  /\ UNCHANGED <<envVars, notRepo>>

RepoStart ==
  /\ repo_cache = EmptyMap
  /\ repo_cache_time = 0
  /\ rpc = "idle"
  /\ rkey = NoKey
  /\ rspots = << >>
  /\ rfailed = FALSE
  /\ calls = 0
  /\ computedAt = EmptyMap
  /\ rresp = NoRResp
  /\ all_spots_cache = [present |-> FALSE, spots |-> << >>]
  /\ cache_client = "unset"
  /\ repo_latest_cache = << >>
  /\ repo_latest_cache_time = 0
  /\ lresp = NoLResp
  /\ nearby = [spots |-> << >>, lng |-> 0, limit |-> 0, result |-> << >>, called |-> FALSE]
  /\ fan = [r \in Callers |-> [waiting |-> 0, running |-> 0]]

\* ------------------------------------------------ saved_list table
\* Python's None, an attribute an item does not carry, a CSV column a row lacks.
None == -1
\* A CSV cell whose text float() rejects.
Unparseable == -2
NoSortKey == <<0, 0>>
Users == 1 .. NUsers
Levels == {"BEGINNER", "INTERMEDIATE", "ADVANCED"}
CondFields == {"waveHeight", "wavePeriod", "windSpeed", "waterTemperature"}
TrackedFields == {"surfScore"} \cup CondFields
NoMetrics == [f \in TrackedFields |-> None]

\* f"{location_id}#{surf_timestamp}": the two parts, in order.
MkSortKey(location_id, surf_timestamp) == <<location_id, surf_timestamp>>

\* The item SavedListRepository.save_item builds (camelCase attribute names).
SaveItemRecord(user_id, location_id, surf_timestamp, surfer_level, metrics, surf_grade) ==
  [userId |-> user_id, sortKey |-> MkSortKey(location_id, surf_timestamp),
   UserId |-> None, SortKey |-> NoSortKey,
   locationId |-> location_id, LocationId |-> None,
   surferLevel |-> surfer_level, SurferLevel |-> "",
   m |-> metrics, surfGrade |-> surf_grade, flagChange |-> FALSE, changeMessage |-> {}]

\* The item DynamoDBService.save_item builds (PascalCase key attributes).
ServiceItemRecord(user_id, location_id, surf_timestamp, surfer_level, metrics, surf_grade) ==
  [userId |-> None, sortKey |-> NoSortKey,
   UserId |-> user_id, SortKey |-> MkSortKey(location_id, surf_timestamp),
   locationId |-> None, LocationId |-> location_id,
   surferLevel |-> "", SurferLevel |-> surfer_level,
   m |-> metrics, surfGrade |-> surf_grade, flagChange |-> FALSE, changeMessage |-> {}]

\* An item with no attribute but its key: what update_item creates when the
\* key does not exist.
StubRecord(user_id, sort_key) ==
  [userId |-> user_id, sortKey |-> sort_key, UserId |-> None, SortKey |-> NoSortKey,
   locationId |-> None, LocationId |-> None, surferLevel |-> "", SurferLevel |-> "",
   m |-> NoMetrics, surfGrade |-> "", flagChange |-> FALSE, changeMessage |-> {}]

\* The table's key schema is userId / sortKey (create_table_if_not_exists).
KeyOf(item) == <<item.userId, item.sortKey>>
HasTableKey(item) == item.userId # None /\ item.sortKey # NoSortKey
ItemsAt(tbl, key) == {x \in tbl : KeyOf(x) = key}

\* attribute_not_exists(userId) AND attribute_not_exists(sortKey), evaluated on
\* the item stored under the new item's key; an unconditional put lets every item through.
ConditionAlwaysHolds(tbl, item) == TRUE
PutCondition(tbl, item) == ItemsAt(tbl, KeyOf(item)) = {}

PutItem(tbl, item) == {x \in tbl : KeyOf(x) # KeyOf(item)} \cup {item}
DeleteKey(tbl, key) == {x \in tbl : KeyOf(x) # key}

\* The entries of the cache without those of the users in S (DEL).
CacheWithout(cache, S) == [u \in (DOMAIN cache) \ S |-> cache[u]]

SavedStart ==
  /\ saved_list = {}
  /\ saved_cache = EmptyMap

\* ------------------------------------------------ save_item / delete / acknowledge
\* The two callers of save_item whose calls may overlap.
Savers == {1, 2}
SavedLoc == 1
SavedTs == MkTs(2, 610)
BaseCond == [f \in CondFields |-> 150000]
MetricsOf(score, cond) == [f \in TrackedFields |-> IF f = "surfScore" THEN score ELSE cond[f]]

NoCall == [via |-> "", user_id |-> 0, surf_score |-> 0]
NoSRes == [out |-> "", user_id |-> 0, existed |-> FALSE, kept |-> TRUE, peers |-> {},
           deleted |-> FALSE]

\* The item a call's arguments make.
CallItem(call) ==
  IF call.via = "repository"
  THEN SaveItemRecord(call.user_id, SavedLoc, SavedTs, "ADVANCED",
                      MetricsOf(call.surf_score, BaseCond), "D")
  ELSE ServiceItemRecord(call.user_id, SavedLoc, SavedTs, "ADVANCED",
                         MetricsOf(call.surf_score, BaseCond), "D")

\* A save_item call starts: resolver / router up to the await of put_item.
SaveBegin(c, via, user_id, surf_score) ==
  /\ spc[c] = "idle"
  /\ spc' = [spc EXCEPT ![c] = "put"]
  /\ sitem' = [sitem EXCEPT ![c] = [via |-> via, user_id |-> user_id,
                                    surf_score |-> surf_score]]
  /\ sres' = [d \in Savers |->
                IF d = c THEN [NoSRes EXCEPT !.out = "pending", !.user_id = user_id]
                ELSE [sres[d] EXCEPT !.peers = @ \ {c}]]
  /\ UNCHANGED <<savedVars, envVars, svcVars, repoVars, ingestVars, readerVars, detVars, userVars>>

\* The conditional put_item takes effect and the call returns: the item, None
\* on ConditionalCheckFailedException, or the store's error is raised (an item
\* without the table's key attributes is rejected).  A successful save
\* invalidates the user's cache entry.
SavePut(c) ==
  /\ spc[c] = "put"
  /\ LET item == CallItem(sitem[c])
         key == <<sitem[c].user_id, MkSortKey(SavedLoc, SavedTs)>>
         existed == ItemsAt(saved_list, key) # {}
         out == IF ~HasTableKey(item) THEN "error"
                ELSE IF PutCondition(saved_list, item) THEN "saved" ELSE "none"
         peers == {d \in Savers \ {c} : spc[d] = "put" /\ sitem[d].user_id = sitem[c].user_id}
     IN /\ saved_list' = IF out = "saved" THEN PutItem(saved_list, item) ELSE saved_list
        /\ saved_cache' = IF out = "saved" THEN CacheWithout(saved_cache, {sitem[c].user_id})
                          ELSE saved_cache
        /\ sres' = [sres EXCEPT ![c] = [out |-> out, user_id |-> sitem[c].user_id,
                                        existed |-> existed,
                                        kept |-> saved_list' = saved_list,
                                        peers |-> peers, deleted |-> @.deleted]]
  /\ spc' = [spc EXCEPT ![c] = "idle"]
  /\ sitem' = [sitem EXCEPT ![c] = NoCall]
  /\ UNCHANGED <<envVars, svcVars, repoVars, ingestVars, readerVars, detVars, userVars>>

\* put_item raises something other than ConditionalCheckFailedException.
SavePutFail(c) ==
  /\ spc[c] = "put"
  /\ sres' = [sres EXCEPT ![c] = [out |-> "error", user_id |-> sitem[c].user_id,
                                  existed |-> ItemsAt(saved_list,
                                     <<sitem[c].user_id, MkSortKey(SavedLoc, SavedTs)>>) # {},
                                  kept |-> TRUE,
                                  peers |-> {d \in Savers \ {c} :
                                     spc[d] = "put" /\ sitem[d].user_id = sitem[c].user_id},
                                  deleted |-> @.deleted]]
  /\ spc' = [spc EXCEPT ![c] = "idle"]
  /\ sitem' = [sitem EXCEPT ![c] = NoCall]
  /\ UNCHANGED <<savedVars, envVars, svcVars, repoVars, ingestVars, readerVars, detVars, userVars>>

\* delete_item and the resolver's invalidation: the key is deleted whether or
\* not it exists.
DeleteItem(user_id) ==
  /\ saved_list' = DeleteKey(saved_list, <<user_id, MkSortKey(SavedLoc, SavedTs)>>)
  /\ saved_cache' = CacheWithout(saved_cache, {user_id})
  /\ sres' = [d \in Savers |->
                IF spc[d] = "put" /\ sitem[d].user_id = user_id
                THEN [sres[d] EXCEPT !.deleted = TRUE] ELSE sres[d]]
  /\ UNCHANGED <<spc, sitem, envVars, svcVars, repoVars, ingestVars, readerVars, detVars, userVars>>

\* An acknowledgement that would clear the flag and leave the message.
AcknowledgedFlagOnly(tbl, key) ==
  LET cur == IF ItemsAt(tbl, key) = {} THEN StubRecord(key[1], key[2])
             ELSE CHOOSE x \in ItemsAt(tbl, key) : TRUE
  IN PutItem(tbl, [cur EXCEPT !.flagChange = FALSE])

\* SET flagChange = false REMOVE changeMessage, on the item of the key or on a
\* new item when there is none.
Acknowledged(tbl, key) ==
  LET cur == IF ItemsAt(tbl, key) = {} THEN StubRecord(key[1], key[2])
             ELSE CHOOSE x \in ItemsAt(tbl, key) : TRUE
  IN PutItem(tbl, [cur EXCEPT !.flagChange = FALSE, !.changeMessage = {}])

\* acknowledge_change and the resolver's invalidation.
AcknowledgeChange(user_id) ==
  /\ saved_list' = Acknowledged(saved_list, <<user_id, MkSortKey(SavedLoc, SavedTs)>>)
  /\ saved_cache' = CacheWithout(saved_cache, {user_id})
  /\ UNCHANGED <<apiVars, envVars, svcVars, repoVars, ingestVars, readerVars, detVars, userVars>>

ApiStart ==
  /\ spc = [c \in Savers |-> "idle"]
  /\ sitem = [c \in Savers |-> NoCall]
  /\ sres = [c \in Savers |-> NoSRes]

\* ------------------------------------------------ get_saved_items
NoGResp == [user |-> 0, items |-> {}, hit |-> FALSE, failed |-> FALSE, expect |-> {}]

\* The resolver up to the await of get_saved_list: a cached list is returned.
GetSavedItems(user_id) ==
  /\ gpc = "idle"
  /\ IF user_id \in DOMAIN saved_cache
     THEN /\ gresp' = [user |-> user_id, items |-> saved_cache[user_id].items,
                       hit |-> TRUE, failed |-> saved_cache[user_id].failed,
                       expect |-> {k \in flaggedDone : k[1] = user_id}]
          /\ UNCHANGED <<gpc, guser, gitems, gexpect>>
     ELSE /\ gpc' = "read"
          /\ guser' = user_id
          /\ gexpect' = {k \in flaggedDone : k[1] = user_id}
          /\ UNCHANGED <<gitems, gresp>>
  /\ UNCHANGED <<savedVars, envVars, svcVars, repoVars, apiVars, ingestVars, detVars, userVars>>

\* get_saved_list: the Query of the user's partition returns.
GetRead ==
  /\ gpc = "read"
  /\ gitems' = [items |-> {x \in saved_list : x.userId = guser}, failed |-> FALSE]
  /\ gpc' = "store"
  /\ UNCHANGED <<guser, gexpect, gresp>>
  /\ UNCHANGED <<savedVars, envVars, svcVars, repoVars, apiVars, ingestVars, detVars, userVars>>

\* get_saved_list: the Query raises and [] is returned.
GetReadFail ==
  /\ gpc = "read"
  /\ gitems' = [items |-> {}, failed |-> TRUE]
  /\ gpc' = "store"
  /\ UNCHANGED <<guser, gexpect, gresp>>
  /\ UNCHANGED <<savedVars, envVars, svcVars, repoVars, apiVars, ingestVars, detVars, userVars>>

\* store_saved_items (SETEX), then the list is returned; cache_ok = FALSE is a
\* cache that is unavailable or raises.  The entry remembers whether its list
\* is the [] of a failed query (history).
GetStore(cache_ok) ==
  /\ gpc = "store"
  /\ saved_cache' = IF cache_ok THEN Put(saved_cache, guser, gitems) ELSE saved_cache
  /\ gresp' = [user |-> guser, items |-> gitems.items, hit |-> FALSE,
               failed |-> gitems.failed, expect |-> gexpect]
  /\ gpc' = "idle"
  /\ guser' = 0
  /\ gitems' = [items |-> {}, failed |-> FALSE]
  /\ gexpect' = {}
  /\ UNCHANGED <<saved_list, envVars, svcVars, repoVars, apiVars, ingestVars, detVars, userVars>>

\* The TTL of a cache entry runs out.
SavedCacheExpire(user_id) ==
  /\ user_id \in DOMAIN saved_cache
  /\ saved_cache' = CacheWithout(saved_cache, {user_id})
  /\ UNCHANGED <<saved_list, envVars, svcVars, repoVars, apiVars, ingestVars, readerVars,
                 detVars, userVars>>

ReaderStart ==
  /\ gpc = "idle"
  /\ guser = 0
  /\ gitems = [items |-> {}, failed |-> FALSE]
  /\ gexpect = {}
  /\ gresp = NoGResp

\* ------------------------------------------------ Lambda: pure helpers
\* round(float(value), digits) on a non-negative fixed-point value; q is the
\* unit of the last kept digit.  The inputs used avoid exact halves.
RoundTo(v, q) == IF v = None THEN None ELSE ((v + (q \div 2)) \div q) * q
\* _to_decimal: round(float(value), 4); None for None and when float() raises.
ToDecimal(value) == IF value \in {None, Unparseable} THEN None ELSE RoundTo(value, 10)
Round1(v) == RoundTo(v, 10000)
Round2(v) == RoundTo(v, 1000)

\* _surf_grade.
SurfGrade(score) ==
  IF score \in {None, Unparseable} THEN "F"
  ELSE IF score >= 8000000 THEN "A"
  ELSE IF score >= 6000000 THEN "B"
  ELSE IF score >= 4000000 THEN "C"
  ELSE IF score >= 2000000 THEN "D"
  ELSE "F"

\* The epsilon of _has_significant_change, 0.001.
Tolerance == 100
\* _has_significant_change on two numbers.
HasSignificantChange(old_val, new_val) == Abs(new_val - old_val) > Tolerance

\* float(x or 0)
FloatOrZero(x) == IF x = None THEN 0 ELSE x

\* The item handler writes to the forecast table (lines 321-355).
ForecastItem(row) ==
  [loc |-> row.location_id, ts |-> row.datetime,
   conditions |-> [f \in CondFields |-> ToDecimal(row.cond[f])],
   derivedMetrics |-> [l \in Levels |->
      [surfScore |-> ToDecimal(row.y[l]), surfGrade |-> SurfGrade(row.y[l])]]]

\* The cache_dict handler builds for latest_per_location (lines 371-413).
CacheData(row) ==
  [locationId |-> row.location_id, surfTimestamp |-> row.datetime,
   conditions |-> [f \in CondFields |-> FloatOrZero(row.cond[f])],
   derivedMetrics |-> [l \in Levels |->
      [surfScore |-> IF row.y[l] = None THEN 0 ELSE Round1(row.y[l]),
       surfGrade |-> SurfGrade(row.y[l])]]]

\* An entry of latest_per_location: (row_dt, cache_dict); src is the row it was
\* built from (history).
LatestEntry(row) == [dt |-> row.datetime, data |-> CacheData(row), src |-> row]

PosOfLocation(lpl, location_id) ==
  IF \E i \in 1 .. Len(lpl) : lpl[i].data.locationId = location_id
  THEN CHOOSE i \in 1 .. Len(lpl) : lpl[i].data.locationId = location_id
  ELSE 0

\* Lines 366-415: keep the nearest row that is not before now_ts; a cell that
\* float() rejects raises inside the try and the row is not tracked.
Track(lpl, row, now_ts) ==
  IF /\ row.datetime >= now_ts
     /\ \A f \in CondFields : row.cond[f] # Unparseable
     /\ \A l \in Levels : row.y[l] # Unparseable
  THEN LET i == PosOfLocation(lpl, row.location_id)
       IN IF i = 0 THEN Append(lpl, LatestEntry(row))
          ELSE IF row.datetime < lpl[i].dt THEN [lpl EXCEPT ![i] = LatestEntry(row)]
          ELSE lpl
  ELSE lpl

\* BatchWriteItem rejects a request that names one key twice.
HasDuplicateKeys(buffer) ==
  \E i, j \in 1 .. Len(buffer) :
    i # j /\ buffer[i].loc = buffer[j].loc /\ buffer[i].ts = buffer[j].ts

\* A flushed request takes effect: each item replaces the item of its key.
WriteAll(store, buffer) ==
  {x \in store : ~\E i \in 1 .. Len(buffer) : buffer[i].loc = x.loc /\ buffer[i].ts = x.ts}
  \cup {buffer[i] : i \in 1 .. Len(buffer)}

\* The loop over the rows inside `with table.batch_writer() as batch` (lines
\* 295-415).  batch.put_item appends to the writer's buffer and flushes it when
\* it holds FlushAmount items; a rejected flush raises out of put_item, is
\* caught (line 360) and its items are gone from the buffer.
RECURSIVE BatchLoop(_, _, _)
BatchLoop(rows, st, now_ts) ==
  IF rows = << >> THEN st
  ELSE LET row == Head(rows)
           buf == Append(st.buffer, ForecastItem(row))
       IN IF row.location_id = None \/ row.datetime = None \/ row.y["ADVANCED"] = None
          THEN BatchLoop(Tail(rows), [st EXCEPT !.errors = @ + 1], now_ts)
          ELSE IF Len(buf) >= FlushAmount /\ HasDuplicateKeys(buf)
          THEN BatchLoop(Tail(rows), [st EXCEPT !.buffer = << >>, !.errors = @ + 1], now_ts)
          ELSE IF Len(buf) >= FlushAmount
          THEN BatchLoop(Tail(rows),
                         [st EXCEPT !.store = WriteAll(@, buf), !.buffer = << >>,
                                    !.written = @ + 1,
                                    !.lpl = Track(@, row, now_ts)], now_ts)
          ELSE BatchLoop(Tail(rows),
                         [st EXCEPT !.buffer = buf, !.written = @ + 1,
                                    !.lpl = Track(@, row, now_ts)], now_ts)

\* The level whose derivedMetrics entry an item is compared with (lines 205-206).
ItemLevel(item) == IF item.SurferLevel \in Levels THEN item.SurferLevel ELSE "BEGINNER"

\* The new values of the five tracked fields for an item (lines 206-216).
NewValues(item, data) ==
  [f \in TrackedFields |->
     IF f = "surfScore" THEN data.derivedMetrics[ItemLevel(item)].surfScore
     ELSE data.conditions[f]]

\* The fields of the comparisons that are reported changed (lines 218-225).
ExamineChanges(item, data) ==
  {f \in TrackedFields :
     item.m[f] # None /\ HasSignificantChange(item.m[f], NewValues(item, data)[f])}

\* changeMessage: field, old and new rounded to two decimals.
ChangeMessage(item, data) ==
  {[field |-> f, old |-> Round2(item.m[f]), new |-> Round2(NewValues(item, data)[f])] :
     f \in ExamineChanges(item, data)}

\* A flagging that would set the flag and the message and leave the stored
\* values as they are.
FlagWithoutCopy(tbl, item, data) ==
  LET key == KeyOf(item)
      cur == IF ItemsAt(tbl, key) = {} THEN StubRecord(key[1], key[2])
             ELSE CHOOSE x \in ItemsAt(tbl, key) : TRUE
  IN PutItem(tbl, [cur EXCEPT !.flagChange = TRUE,
                              !.changeMessage = ChangeMessage(item, data)])

\* update_item of lines 233-251 on the item now stored under the scanned
\* item's key, or on a new item when the key is gone.
FlagUpdate(tbl, item, data) ==
  LET key == KeyOf(item)
      cur == IF ItemsAt(tbl, key) = {} THEN StubRecord(key[1], key[2])
             ELSE CHOOSE x \in ItemsAt(tbl, key) : TRUE
  IN PutItem(tbl, [cur EXCEPT
                     !.flagChange = TRUE,
                     !.changeMessage = ChangeMessage(item, data),
                     !.m = [f \in TrackedFields |-> ToDecimal(NewValues(item, data)[f])],
                     !.surfGrade = data.derivedMetrics[ItemLevel(item)].surfGrade])

\* The items a scan yields, in key order.
RECURSIVE SeqOfSaved(_)
SeqOfSaved(S) ==
  IF S = {} THEN << >>
  ELSE LET m == CHOOSE x \in S : \A y \in S :
                  \/ x.userId < y.userId
                  \/ /\ x.userId = y.userId
                     /\ \/ x.sortKey[1] < y.sortKey[1]
                        \/ x.sortKey[1] = y.sortKey[1] /\ x.sortKey[2] <= y.sortKey[2]
       IN << m >> \o SeqOfSaved(S \ {m})

\* ------------------------------------------------ Lambda: handler
NoHResult == [status |-> "", written |-> 0, errors |-> 0, cache_written |-> 0,
              saved_flagged |-> 0, cached |-> {}]

\* The summary handler returns (lines 447-455) once change detection has
\* given saved_flagged; a summary that dropped the written count would not be
\* the one the code builds.
SummaryWithoutWritten(res, saved_flagged) ==
  [res EXCEPT !.status = IF res.errors = 0 THEN "success" ELSE "partial",
              !.saved_flagged = saved_flagged, !.written = 0]
ReturnSummary(res, saved_flagged) ==
  [res EXCEPT !.status = IF res.errors = 0 THEN "success" ELSE "partial",
              !.saved_flagged = saved_flagged]

\* handler from its start to the call of _detect_and_flag_changes (lines
\* 274-442): the rows are put through the batch writer, whose __exit__ flushes
\* what is left (a rejected flush there raises out of handler), and the nearest
\* upcoming record of each location is written to the cache when a client
\* exists (redis).
HandlerRun(batch, now_ts, redis) ==
  /\ hpc = "idle"
  /\ runs < MaxRuns
  /\ LET st == BatchLoop(batch, [store |-> ddb, buffer |-> << >>, written |-> 0,
                                 errors |-> 0, lpl |-> << >>], now_ts)
         lpl == st.lpl
     IN IF HasDuplicateKeys(st.buffer)
        THEN /\ ddb' = st.store
             /\ hresult' = [NoHResult EXCEPT !.status = "raised", !.written = st.written,
                                             !.errors = st.errors,
                                             !.cached = DOMAIN saved_cache]
             /\ hpc' = "idle"
             /\ runs' = runs + 1
             /\ latest_per_location' = << >>
             /\ todo' = << >>
             /\ UNCHANGED latest_cache
        ELSE /\ ddb' = WriteAll(st.store, st.buffer)
             /\ latest_cache' =
                  IF redis
                  THEN [l \in (DOMAIN latest_cache) \cup
                                {lpl[i].data.locationId : i \in 1 .. Len(lpl)} |->
                          IF PosOfLocation(lpl, l) # 0 THEN lpl[PosOfLocation(lpl, l)].data
                          ELSE latest_cache[l]]
                  ELSE latest_cache
             /\ hresult' = [NoHResult EXCEPT !.status = "running", !.written = st.written,
                                             !.errors = st.errors,
                                             !.cache_written = IF redis THEN Len(lpl) ELSE 0]
             /\ hpc' = IF lpl = << >> THEN "invalidate" ELSE "scan"
             /\ latest_per_location' = lpl
             /\ todo' = lpl
             /\ UNCHANGED runs
  /\ hrows' = batch
  /\ hbefore' = saved_list
  /\ r_ok' = redis
  /\ saved_items' = << >>
  /\ flagged' = 0
  /\ affected_users' = {}
  /\ hupdates' = {}
  /\ hdeleted' = {}
  /\ UNCHANGED <<flaggedDone, savedVars, now, key_schema, svcVars, repoVars, apiVars, readerVars, detVars, userVars>>

\* _detect_and_flag_changes, lines 178-193: the scan for the next location.
DetectScan ==
  /\ hpc = "scan"
  /\ LET location_id == Head(todo).data.locationId
         found == SeqOfSaved({x \in saved_list : x.LocationId = location_id})
     IN IF found = << >>
        THEN /\ todo' = Tail(todo)
             /\ hpc' = IF Tail(todo) = << >> THEN "invalidate" ELSE "scan"
             /\ UNCHANGED saved_items
        ELSE /\ saved_items' = found
             /\ hpc' = "items"
             /\ UNCHANGED todo
  /\ UNCHANGED <<latest_cache, hrows, hbefore, latest_per_location, flagged, affected_users,
                 runs, r_ok, hupdates, hdeleted, hresult, flaggedDone>>
  /\ UNCHANGED <<savedVars, envVars, svcVars, repoVars, apiVars, readerVars, detVars, userVars>>

\* tbl.scan raises: the exception leaves _detect_and_flag_changes before any
\* cache entry is deleted, handler catches it (lines 444-445) and returns its
\* summary with saved_flagged = 0.
DetectScanFail ==
  /\ hpc = "scan"
  /\ hresult' = [ReturnSummary(hresult, 0) EXCEPT !.cached = DOMAIN saved_cache]
  /\ hpc' = "idle"
  /\ runs' = runs + 1
  /\ hdeleted' = {}
  /\ UNCHANGED <<latest_cache, hrows, hbefore, latest_per_location, todo, saved_items, flagged,
                 affected_users, r_ok, hupdates, flaggedDone>>
  /\ UNCHANGED <<savedVars, envVars, svcVars, repoVars, apiVars, readerVars, detVars, userVars>>

\* What follows the examination of one item: the next item, location or step.
DetectAdvance ==
  /\ saved_items' = Tail(saved_items)
  /\ IF Tail(saved_items) = << >>
     THEN /\ todo' = Tail(todo)
          /\ hpc' = IF Tail(todo) = << >> THEN "invalidate" ELSE "scan"
     ELSE UNCHANGED <<todo, hpc>>

\* Lines 197-254 for one scanned item: it is skipped, found unchanged, or
\* flagged by an update_item that succeeds.
DetectItem ==
  /\ hpc = "items"
  /\ LET item == Head(saved_items)
         entry == Head(todo)
         changes == ExamineChanges(item, entry.data)
     IN IF item.userId = None \/ item.sortKey = NoSortKey \/ changes = {}
        THEN UNCHANGED <<saved_list, flagged, affected_users, hupdates>>
        ELSE /\ saved_list' = FlagUpdate(saved_list, item, entry.data)
             /\ flagged' = flagged + 1
             /\ affected_users' = affected_users \cup {item.userId}
             /\ hupdates' = hupdates \cup
                  {[userId |-> item.userId, sortKey |-> item.sortKey, old |-> item.m,
                    ingested |-> MetricsOf(entry.src.y[ItemLevel(item)], entry.src.cond)]}
  /\ DetectAdvance
  /\ UNCHANGED <<latest_cache, hrows, hbefore, latest_per_location, runs, r_ok, hdeleted,
                 hresult, flaggedDone>>
  /\ UNCHANGED <<saved_cache, envVars, svcVars, repoVars, apiVars, readerVars, detVars, userVars>>

\* Lines 255-256: the update_item of a changed item raises.
DetectItemFail ==
  /\ hpc = "items"
  /\ LET item == Head(saved_items)
     IN /\ item.userId # None /\ item.sortKey # NoSortKey
        /\ ExamineChanges(item, Head(todo).data) # {}
  /\ DetectAdvance
  /\ UNCHANGED <<latest_cache, hrows, hbefore, latest_per_location, flagged, affected_users,
                 runs, r_ok, hupdates, hdeleted, hresult, flaggedDone>>
  /\ UNCHANGED <<savedVars, envVars, svcVars, repoVars, apiVars, readerVars, detVars, userVars>>

\* Lines 258-269 and the return of handler: the cache entries of the affected
\* users are deleted in one pipeline when a client exists; pipe_ok = FALSE is a
\* pipeline that raises.
DetectInvalidate(pipe_ok) ==
  /\ hpc = "invalidate"
  /\ LET deletes == r_ok /\ affected_users # {} /\ pipe_ok
     IN /\ saved_cache' = IF deletes THEN CacheWithout(saved_cache, affected_users)
                          ELSE saved_cache
        /\ hdeleted' = IF deletes THEN affected_users ELSE {}
        /\ flaggedDone' = IF deletes
                          THEN flaggedDone \cup {<<t.userId, t.sortKey>> : t \in hupdates}
                          ELSE flaggedDone
  /\ hresult' = [ReturnSummary(hresult, flagged) EXCEPT !.cached = DOMAIN saved_cache']
  /\ hpc' = "idle"
  /\ runs' = runs + 1
  /\ UNCHANGED <<latest_cache, hrows, hbefore, latest_per_location, todo, saved_items, flagged,
                 affected_users, r_ok, hupdates>>
  /\ UNCHANGED <<saved_list, envVars, svcVars, repoVars, apiVars, readerVars, detVars, userVars>>

IngestStart ==
  /\ latest_cache = EmptyMap
  /\ hpc = "idle"
  /\ hrows = << >>
  /\ hbefore = {}
  /\ latest_per_location = << >>
  /\ todo = << >>
  /\ saved_items = << >>
  /\ flagged = 0
  /\ affected_users = {}
  /\ runs = 0
  /\ r_ok = FALSE
  /\ hupdates = {}
  /\ hdeleted = {}
  /\ hresult = NoHResult
  /\ flaggedDone = {}

\* ------------------------------------------------ one examination
\* The stored values an examined selection may carry, and the rows compared
\* with it: each tracked field is absent or at its base value, and the newly
\* ingested value is the base plus 0, 0.0005 or 0.002.
DetBase == MetricsOf(2000000, BaseCond)
DetDeltas == {0, 50, 200}

\* The row whose values are the base values plus the deltas.
DetRow(delta) ==
  [location_id |-> SavedLoc, datetime |-> SavedTs,
   y |-> [l \in Levels |-> DetBase["surfScore"] + delta["surfScore"]],
   cond |-> [f \in CondFields |-> DetBase[f] + delta[f]]]

\* The row becomes an entry of latest_per_location and a selection with the
\* stored values is examined against it.
Examine ==
  /\ ~d_done
  /\ LET item == [StubRecord(1, MkSortKey(SavedLoc, SavedTs)) EXCEPT
                    !.LocationId = SavedLoc, !.m = d_old]
     IN d_flag' = (ExamineChanges(item, CacheData(DetRow(d_delta))) # {})
  /\ d_done' = TRUE
  /\ UNCHANGED <<d_old, d_delta>>
  /\ UNCHANGED <<savedVars, envVars, svcVars, repoVars, apiVars, ingestVars, readerVars, userVars>>

DetStart ==
  /\ d_old = NoMetrics
  /\ d_delta = [f \in TrackedFields |-> 0]
  /\ d_done = FALSE
  /\ d_flag = FALSE

\* ------------------------------------------------ register
NoReg == [pc |-> "idle", username |-> "", pw_ok |-> TRUE, consent |-> TRUE, user_id |-> 0,
          code |-> ""]

\* The unique constraint of users.username (models/user.py line 19): an INSERT
\* of a username a committed row carries is rejected.  A table without the
\* constraint would reject nothing.
NoConstraint(username) == FALSE
UniqueViolation(username) == \E row \in users : row.username = username

\* UserService.register up to the await of create (lines 57-89): the passwords
\* are compared, then the consent is checked, then exists_by_username selects
\* the committed row of the username.  An error result ends the request, whose
\* session commits nothing.
RegisterCall(p, username, pw_ok, consent) ==
  /\ reg[p].pc = "idle"
  /\ user_id_seq <= MaxCalls
  /\ LET call == [NoReg EXCEPT !.username = username, !.pw_ok = pw_ok, !.consent = consent]
     IN reg' = [reg EXCEPT ![p] =
          IF ~pw_ok THEN [call EXCEPT !.code = "PASSWORD_MISMATCH"]
          ELSE IF ~consent THEN [call EXCEPT !.code = "CONSENT_REQUIRED"]
          ELSE IF \E row \in users : row.username = username
          THEN [call EXCEPT !.code = "USERNAME_EXISTS"]
          ELSE [call EXCEPT !.pc = "create"]]
  /\ UNCHANGED <<users, user_id_seq>>
  /\ UNCHANGED <<envVars, svcVars, repoVars, savedVars, apiVars, ingestVars, readerVars, detVars>>

\* UserRepository.create (lines 40-59): session.flush sends the INSERT, which
\* takes a value of the user_id sequence.  It waits while another transaction
\* holds an uncommitted row of the same username; a unique violation raises
\* out of register and the session is rolled back (db/session.py lines 115-117).
RegisterFlush(p) ==
  /\ reg[p].pc = "create"
  /\ ~\E q \in DOMAIN reg : q # p /\ reg[q].pc = "flushed" /\ reg[q].username = reg[p].username
  /\ user_id_seq' = user_id_seq + 1
  /\ reg' = [reg EXCEPT ![p] =
        IF UniqueViolation(reg[p].username)
        THEN [@ EXCEPT !.pc = "idle", !.code = "raised"]
        ELSE [@ EXCEPT !.pc = "flushed", !.user_id = user_id_seq]]
  /\ UNCHANGED users
  /\ UNCHANGED <<envVars, svcVars, repoVars, savedVars, apiVars, ingestVars, readerVars, detVars>>

\* register returns its success result (lines 92-103) and get_db commits the
\* session (db/session.py line 114).
RegisterReturn(p) ==
  /\ reg[p].pc = "flushed"
  /\ users' = users \cup {[user_id |-> reg[p].user_id, username |-> reg[p].username]}
  /\ reg' = [reg EXCEPT ![p] = [@ EXCEPT !.pc = "idle", !.code = "success"]]
  /\ UNCHANGED user_id_seq
  /\ UNCHANGED <<envVars, svcVars, repoVars, savedVars, apiVars, ingestVars, readerVars, detVars>>

UserStart ==
  /\ users = {}
  /\ user_id_seq = 1
  /\ reg = [p \in 1 .. NCallers |-> NoReg]

\* ------------------------------------------------------------ environment
\* The monotonic clock advances.
Tick ==
  /\ now + TickStep <= MaxTime
  /\ now' = now + TickStep
  /\ UNCHANGED <<ddb, key_schema, svcVars, repoVars, savedVars, apiVars, ingestVars, readerVars, detVars, userVars>>

\* An ingestion upserts one forecast item (key loc, ts).
StoreWrite(it) ==
  /\ it \notin ddb
  /\ ddb' = {x \in ddb : ~(x.loc = it.loc /\ x.ts = it.ts)} \cup {it}
  /\ UNCHANGED <<now, key_schema, svcVars, repoVars, savedVars, apiVars, ingestVars, readerVars, detVars, userVars>>

\* The rows later ingestions write: a new item and a new value of an old one.
IngestRows ==
  {[loc |-> 1, ts |-> MkTs(1, 558), score |-> 2],
   [loc |-> 2, ts |-> MkTs(2, 610), score |-> 1]}

NoResp == [hit |-> FALSE, from |-> 0, at |-> 0, scan_failed |-> FALSE]

SvcStart ==
  /\ scan_cache = << >>
  /\ scan_cache_time = 0
  /\ date_index = EmptyMap
  /\ spots_for_date_cache = EmptyMap
  /\ spots_for_date_cache_time = 0
  /\ pc = [c \in Callers |-> "idle"]
  /\ req = [c \in Callers |-> NoKey]
  /\ all_items = [c \in Callers |-> << >>]
  /\ page = [c \in Callers |-> 1]
  /\ gen = 0
  /\ entryGen = EmptyMap
  /\ resp = NoResp

SvcInit ==
  /\ ddb = {[loc |-> 1, ts |-> MkTs(1, 558), score |-> 1]}
  /\ now = TickStep
  /\ key_schema \in {"pascal", "camel"}
  /\ SvcStart
  /\ RepoStart
  /\ locations_table = Locs
  /\ SavedStart /\ ApiStart /\ IngestStart /\ ReaderStart /\ DetStart /\ UserStart

\* The (date, time) arguments of the calls.
SvcKeys == {<<1, NoTime>>, <<1, 600>>, <<2, NoTime>>}

SvcNext ==
  \/ \E c \in Callers, k \in SvcKeys : SvcCall(c, k[1], k[2])
  \/ \E c \in Callers : SvcScanPage(c)
  \/ \E c \in Callers : SvcScanDone(c)
  \/ \E c \in Callers : SvcIndexFail(c)
  \/ \E c \in Callers : SvcScanFail(c)
  \/ Tick
  \/ \E it \in IngestRows : StoreWrite(it)

SpecSvc == SvcInit /\ [][SvcNext]_vars

\* The INTERMEDIATE score of the forecast stored under a key of the store.
ScoreOf(l, ts) == ((l + HHMM(ts)) % 2) + 1

\* The keys the forecast store may hold in the repository's specification.
RepoKeys == {<<1, MkTs(1, 558)>>, <<NLocs, MkTs(2, 610)>>}
            \cup {<<l, MkTs(1, 610)>> : l \in Locs}

RepoInit ==
  /\ \E K \in SUBSET RepoKeys :
       ddb = {[loc |-> k[1], ts |-> k[2], score |-> ScoreOf(k[1], k[2])] : k \in K}
  /\ locations_table \in {Locs, Locs \ {NLocs}}
  /\ now = TickStep
  /\ key_schema = "camel"
  /\ SvcStart
  /\ RepoStart
  /\ SavedStart /\ ApiStart /\ IngestStart /\ ReaderStart /\ DetStart /\ UserStart

RepoNext ==
  \/ \E d \in Dates, t \in TimeArgs :
       \/ \E F \in SUBSET locations_table : RepoCall(d, t, FALSE, F)
       \/ RepoCall(d, t, TRUE, {})
  \/ RepoStore
  \/ Tick

SpecRepo == RepoInit /\ [][RepoNext]_vars

\* Calls with a time argument, well-formed or not, while the store and the
\* locations table answer every request.
RepoTimeNext ==
  \/ \E d \in Dates, t \in {600, BadTime} : RepoCall(d, t, FALSE, {})
  \/ RepoStore
  \/ Tick

SpecRepoTime == RepoInit /\ [][RepoTimeNext]_vars

\* ------------------------------------------------ latest view: specification
LatestNext ==
  \/ \E rcond \in {"ok", "nourl", "down", "error"}, wcond \in {"ok", "error"}, ids_fail \in BOOLEAN :
       \E failing \in (IF ids_fail THEN {{}} ELSE {{}, {1}}) :
         GetAllSpotsRaw(rcond, wcond, ids_fail, failing)
  \/ AllSpotsExpire
  \/ Tick
  \/ \E it \in IngestRows : StoreWrite(it)

SpecLatest == RepoInit /\ [][LatestNext]_vars

\* ------------------------------------------------ saved list: specification
\* The stored surfScore values a save_item call is made with.
SaveScores == {2000000, 6456780}

SavedInit ==
  /\ ddb = {}
  /\ now = TickStep
  /\ key_schema = "camel"
  /\ locations_table = Locs
  /\ SvcStart /\ RepoStart /\ SavedStart /\ ApiStart /\ IngestStart /\ ReaderStart /\ DetStart /\ UserStart

SavedNext ==
  \/ \E c \in Savers, via \in {"repository", "service"}, u \in Users, s \in SaveScores :
       SaveBegin(c, via, u, s)
  \/ \E c \in Savers : SavePut(c)
  \/ \E c \in Savers : SavePutFail(c)
  \/ \E u \in Users : DeleteItem(u)
  \/ \E u \in Users : AcknowledgeChange(u)

SpecSaved == SavedInit /\ [][SavedNext]_vars

\* ------------------------------------------------ ingestion: specification
\* A CSV row: location_id, datetime, y_pred_beg / y_pred_int / y_pred_adv, and
\* the four conditions, of which wave_height varies.
Row(location_id, datetime, y_beg, y_int, y_adv, wave_height) ==
  [location_id |-> location_id, datetime |-> datetime,
   y |-> [l \in Levels |-> IF l = "BEGINNER" THEN y_beg
                           ELSE IF l = "INTERMEDIATE" THEN y_int ELSE y_adv],
   cond |-> [BaseCond EXCEPT !["waveHeight"] = wave_height]]

RowA == Row(SavedLoc, SavedTs, 2000000, 2000000, 6500000, 150000)
RowB == Row(SavedLoc, SavedTs, 6456783, 6456783, 6456783, 150000)
RowC == Row(SavedLoc, MkTs(1, 558), 2000000, 2000000, 2000000, 150200)
RowD == Row(2, SavedTs, 6456783, 6456783, 6456783, 150000)
RowM == [RowA EXCEPT !.location_id = None]
RowU == Row(2, SavedTs, 6456783, 6456783, Unparseable, 150000)
\* The batches a run may be given: a single row, a row with a cell that is no
\* number, two rows of one key, a malformed row before a row that is nearer in
\* time, three rows of which the last two share a key, and three rows of
\* three keys.
Batches ==
  {b \in {<<RowA>>, <<RowB>>, <<RowD>>, <<RowU>>, <<RowA, RowB>>, <<RowM, RowC>>,
          <<RowC, RowA, RowB>>, <<RowC, RowA, RowD>>} :
     Len(b) <= MaxBatch}
NowTs == {MkTs(1, 0), MkTs(2, 0)}

\* A selection carrying the attribute names _detect_and_flag_changes reads:
\* userId, sortKey, LocationId, SurferLevel.
LambdaLayoutRecord(user_id, location_id, surf_timestamp, surfer_level, metrics, surf_grade) ==
  [SaveItemRecord(user_id, location_id, surf_timestamp, "", metrics, surf_grade) EXCEPT
     !.locationId = None, !.LocationId = location_id, !.SurferLevel = surfer_level]

\* The selections the table may hold when the first run starts: one that
\* save_item created, and two in the layout the Lambda reads.
InitSelections ==
  {SaveItemRecord(2, SavedLoc, SavedTs, "ADVANCED", MetricsOf(2000000, BaseCond), "D"),
   LambdaLayoutRecord(1, SavedLoc, SavedTs, "ADVANCED", MetricsOf(2000000, BaseCond), "D"),
   LambdaLayoutRecord(2, 2, SavedTs, "", MetricsOf(6456780, BaseCond), "B")}

IngestInit ==
  /\ ddb = {}
  /\ now = TickStep
  /\ key_schema = "camel"
  /\ locations_table = Locs
  /\ saved_list \in SUBSET InitSelections
  /\ saved_cache = EmptyMap
  /\ SvcStart /\ RepoStart /\ ApiStart /\ IngestStart /\ ReaderStart /\ DetStart /\ UserStart

IngestNext ==
  \/ \E batch \in Batches, now_ts \in NowTs, redis \in BOOLEAN : HandlerRun(batch, now_ts, redis)
  \/ DetectScan
  \/ DetectScanFail
  \/ DetectItem
  \/ DetectItemFail
  \/ \E pipe_ok \in BOOLEAN : DetectInvalidate(pipe_ok)

SpecIngest == IngestInit /\ [][IngestNext]_vars

\* ------------------------------------------------ nearby spots: specification
\* get_spots_for_date gives one of SpotLists; the calls are made over it.
NearbyInit ==
  /\ ddb = {}
  /\ now = TickStep
  /\ key_schema = "camel"
  /\ locations_table = Locs
  /\ repo_cache = EmptyMap /\ repo_cache_time = 0 /\ rpc = "idle" /\ rkey = NoKey
  /\ rspots = << >> /\ rfailed = FALSE /\ calls = 0 /\ computedAt = EmptyMap
  /\ rresp = NoRResp /\ lresp = NoLResp
  /\ all_spots_cache = [present |-> FALSE, spots |-> << >>] /\ cache_client = "unset"
  /\ repo_latest_cache = << >> /\ repo_latest_cache_time = 0
  /\ \E spots \in SpotLists :
       nearby = [spots |-> spots, lng |-> 0, limit |-> 0, result |-> << >>, called |-> FALSE]
  /\ fan = [r \in Callers |-> [waiting |-> 0, running |-> 0]]
  /\ SvcStart /\ SavedStart /\ ApiStart /\ IngestStart /\ ReaderStart /\ DetStart /\ UserStart

NearbyNext ==
  \E lng \in {0, 90}, limit \in 1 .. MaxSpots : GetNearbySpots(lng, limit)

SpecNearby == NearbyInit /\ [][NearbyNext]_vars

\* ------------------------------------------------ ingestion and readers: specification
\* Runs that ingest one row of a location with saved selections, while
\* get_saved_items is called.
ReadBatches == {<<RowA>>, <<RowD>>}

ReadInit ==
  /\ ddb = {}
  /\ now = TickStep
  /\ key_schema = "camel"
  /\ locations_table = Locs
  /\ saved_list = InitSelections
  /\ saved_cache = EmptyMap
  /\ SvcStart /\ RepoStart /\ ApiStart /\ IngestStart /\ ReaderStart /\ DetStart /\ UserStart

ReadNext ==
  \/ \E batch \in ReadBatches, redis \in BOOLEAN : HandlerRun(batch, MkTs(1, 0), redis)
  \/ DetectScan
  \/ DetectScanFail
  \/ DetectItem
  \/ DetectItemFail
  \/ \E pipe_ok \in BOOLEAN : DetectInvalidate(pipe_ok)
  \/ \E u \in Users : GetSavedItems(u)
  \/ GetRead
  \/ GetReadFail
  \/ \E cache_ok \in BOOLEAN : GetStore(cache_ok)
  \/ \E u \in Users : SavedCacheExpire(u)

SpecRead == ReadInit /\ [][ReadNext]_vars

\* ------------------------------------------------ selections: specification
\* A run and its repetition with the same batch, while user 1, whose selection
\* of location 1 the Lambda can examine, saves, deletes and acknowledges it.
LifecycleNext ==
  \/ \E batch \in ReadBatches, redis \in BOOLEAN :
       /\ runs = 0 \/ (runs = 1 /\ batch = hrows)
       /\ HandlerRun(batch, MkTs(1, 0), redis)
  \/ DetectScan
  \/ DetectScanFail
  \/ DetectItem
  \/ DetectItemFail
  \/ \E pipe_ok \in BOOLEAN : DetectInvalidate(pipe_ok)
  \/ DeleteItem(1)
  \/ AcknowledgeChange(1)
  \/ SaveBegin(1, "repository", 1, 2000000)
  \/ SavePut(1)

SpecLifecycle == ReadInit /\ [][LifecycleNext]_vars

\* ------------------------------------------------ register: specification
RegisterNext ==
  \E p \in 1 .. NCallers :
    \/ \E username \in {"ann", "bob"}, pw_ok \in BOOLEAN, consent \in BOOLEAN :
         RegisterCall(p, username, pw_ok, consent)
    \/ RegisterFlush(p)
    \/ RegisterReturn(p)

SpecRegister == ReadInit /\ [][RegisterNext]_vars

\* ------------------------------------------------ fan-out: specification
FanOutNext ==
  \E r \in Callers : FanOutStart(r) \/ QueryAcquire(r) \/ QueryRelease(r)

SpecFanOut == ReadInit /\ [][FanOutNext]_vars

\* ------------------------------------------------ examination: specification
DetInit ==
  /\ ddb = {}
  /\ now = TickStep
  /\ key_schema = "camel"
  /\ locations_table = Locs
  /\ SvcStart /\ RepoStart /\ SavedStart /\ ApiStart /\ IngestStart /\ ReaderStart /\ UserStart
  /\ d_old \in {m \in [TrackedFields -> {None, 2000000, 150000}] :
                  \A f \in TrackedFields : m[f] \in {None, DetBase[f]}}
  /\ d_delta \in [TrackedFields -> DetDeltas]
  /\ d_done = FALSE
  /\ d_flag = FALSE

DetNext == Examine

SpecDetect == DetInit /\ [][DetNext]_vars

\* ------------------------------------------------------------------ C1
\* C1: every list the result cache of SurfDynamoDBService can serve, and every
\* list it did serve, was computed from the snapshot that is current: it carries
\* the number of the latest install and equals what the current date index gives.
C1_ServedFromCurrentSnapshot ==
  /\ \A key \in DOMAIN spots_for_date_cache :
        SvcCacheHit(key) =>
          /\ entryGen[key] = gen
          /\ spots_for_date_cache[key] = SvcComputeSpots(date_index, key[1], key[2])
  /\ resp.hit => resp.from = resp.at

\* A cached list is served after the snapshot was replaced at least once.
C1_Witness == resp.hit /\ resp.at >= 2

\* ------------------------------------------------------------------ C2
\* C2: a list served from the result cache is never older than the cache TTL:
\* whenever get_spots_for_date answers from the cache, at most CACHE_TTL seconds
\* have passed since that list was computed and stored.
C2_NeverServedPastTtl == rresp.hit => rresp.age <= CACHE_TTL

\* ------------------------------------------------------------------ C7
\* The locations that have a record of date D in the forecast store.
LocsWithRecordOn(D) == {it.loc : it \in {x \in ddb : DateOf(x.ts) = D}}
LocsOf(spots) == {spots[i].loc : i \in 1 .. Len(spots)}
OnePerLocation(spots) ==
  \A i, j \in 1 .. Len(spots) : spots[i].loc = spots[j].loc => i = j
ComputedNoTime == rresp.key # NoKey /\ ~rresp.hit /\ rresp.key[2] = NoTime

Minutes(hhmm) == Hour(hhmm) * 60 + (hhmm % 100)
MinutesAway(ts, time) == Abs(Minutes(HHMM(ts)) - Minutes(time))

\* C8: a computed result of get_spots_for_date(date, time) holds, for each
\* location, a record of that date none of whose siblings (records of the same
\* location and date) is closer in minutes to the requested time.
C8_ClosestInMinutes ==
  (rresp.key # NoKey /\ ~rresp.hit /\ ~rresp.failed /\ rresp.key[2] # NoTime) =>
    \A i \in 1 .. Len(rresp.spots) :
      \A it \in ddb :
        (it.loc = rresp.spots[i].loc /\ DateOf(it.ts) = rresp.key[1]) =>
          MinutesAway(rresp.spots[i].ts, rresp.key[2]) <= MinutesAway(it.ts, rresp.key[2])

\* ------------------------------------------------------------------ C3
\* A stored copy differs from ingested values: some tracked field it carries is
\* more than the tolerance away from the ingested value.
Differs(stored, ingested) ==
  \E f \in TrackedFields : stored[f] # None /\ Abs(ingested[f] - stored[f]) > Tolerance
WellFormed(row) ==
  row.location_id # None /\ row.datetime # None /\ row.y["ADVANCED"] # None
SelLocation(it) == IF it.locationId # None THEN it.locationId ELSE it.LocationId
SelLevel(it) ==
  IF it.surferLevel \in Levels THEN it.surferLevel
  ELSE IF it.SurferLevel \in Levels THEN it.SurferLevel ELSE "BEGINNER"
\* The values row i of the run gives to the tracked fields of a selection.
IngestedFor(sel, row) == MetricsOf(row.y[SelLevel(sel)], row.cond)

\* C3: when a run returns, every selection that save_item had created, whose
\* location the run wrote and whose stored copy differs from the values of the
\* record the run kept for that location, is flagged, holds the new values,
\* and its user's cache entry is absent.
C3_SavedSelectionFlagged ==
  (hpc = "idle" /\ hresult.status \in {"success", "partial"}) =>
    \A old \in hbefore : \A i \in 1 .. Len(latest_per_location) :
      LET row == latest_per_location[i].src
      IN ( /\ old.locationId # None
           /\ row.location_id = old.locationId
           /\ Differs(old.m, IngestedFor(old, row)) )
         => /\ \E it \in saved_list :
                 /\ KeyOf(it) = KeyOf(old)
                 /\ it.flagChange
                 /\ it.m = [f \in TrackedFields |-> ToDecimal(IngestedFor(old, row)[f])]
            /\ old.userId \notin hresult.cached

\* ------------------------------------------------------------------ C4
\* C4: an examined selection is flagged exactly when one of the five tracked
\* fields it carries differs from the newly ingested value by more than the
\* tolerance (a delta of 0.0005 does not count, a delta of 0.002 does).
C4_FlaggedIffDelta ==
  d_done =>
    (d_flag <=> \E f \in TrackedFields :
                  d_old[f] # None /\ Abs((DetBase[f] + d_delta[f]) - d_old[f]) > Tolerance)

\* ------------------------------------------------------------------ C5
\* A selection has a changed tracked field: a row of the run is of its location
\* and differs from its stored copy.
ChangedBy(sel, rows) ==
  \E i \in 1 .. Len(rows) :
    /\ WellFormed(rows[i])
    /\ rows[i].location_id = SelLocation(sel)
    /\ Differs(sel.m, IngestedFor(sel, rows[i]))

\* C5: every user the run touches (an update of a selection, a delete of the
\* cache entry) had a selection with a changed tracked field when the run
\* started.
C5_UnchangedUsersUntouched ==
  \A u \in {t.userId : t \in hupdates} \cup hdeleted :
    \E sel \in hbefore : sel.userId = u /\ ChangedBy(sel, hrows)

\* ------------------------------------------------------------------ C6
\* C6: a get_saved_items call that starts after a run has flagged a selection
\* of its user and deleted the user's cache entry returns that selection
\* flagged (the user's query not having failed).
C6_ReadsAfterInvalidationAreFresh ==
  ~gresp.failed =>
    \A k \in gresp.expect : \E it \in gresp.items : KeyOf(it) = k /\ it.flagChange

\* ------------------------------------------------------------------ C9
\* No two items of the table share a key (userId, locationId, surfTimestamp).
SavedUnique == \A x, y \in saved_list : KeyOf(x) = KeyOf(y) => x = y
Finished(c) == sres[c].out \in {"saved", "none", "error"}
\* Calls c and d were concurrent and for one triple: d was in progress when c
\* wrote, and has returned since.
ConcurrentPair(c, d) == c # d /\ Finished(c) /\ d \in sres[c].peers /\ Finished(d)

\* C9 as stated, for calls whose store operation did not raise: keys are
\* unique; a save_item for an existing triple returns None and leaves the
\* table as it is; of two concurrent save_item calls for one triple exactly
\* one succeeds.
C9_ExactlyOneOfConcurrentSaves ==
  /\ SavedUnique
  /\ \A c \in Savers :
       (Finished(c) /\ sres[c].existed /\ sres[c].out # "error")
         => (sres[c].out = "none" /\ sres[c].kept)
  /\ \A c, d \in Savers :
       (ConcurrentPair(c, d) /\ sres[c].out # "error" /\ sres[d].out # "error")
         => ((sres[c].out = "saved") # (sres[d].out = "saved"))

\* C9 amended: keys are unique; a save_item for an existing triple leaves the
\* table as it is and returns None or raises; two concurrent save_item calls
\* for one triple both succeed only if a delete_item for the triple took effect
\* while the later one was in progress; and when the triple was absent at the
\* first write, no such delete happened and neither call raised, the first
\* writer succeeds and the second returns None.
C9_ConditionalSave ==
  /\ SavedUnique
  /\ \A c \in Savers :
       (Finished(c) /\ sres[c].existed) => (sres[c].out \in {"none", "error"} /\ sres[c].kept)
  /\ \A c, d \in Savers :
       ConcurrentPair(c, d) =>
         /\ (sres[c].out = "saved" /\ sres[d].out = "saved") => sres[d].deleted
         /\ ( /\ ~sres[c].existed /\ ~sres[d].deleted
              /\ sres[c].out # "error" /\ sres[d].out # "error" )
            => (sres[c].out = "saved" /\ sres[d].out = "none")

\* Two concurrent calls for one triple have returned, the first writer with
\* the item and the second with None, and the table holds the first's item.
C9_Witness ==
  \E c, d \in Savers :
    /\ ConcurrentPair(c, d)
    /\ sres[c].out = "saved" /\ sres[d].out = "none" /\ sres[d].existed
    /\ \E x \in saved_list : x.userId = sres[c].user_id

\* ------------------------------------------------------------------ C10
\* Row i is the last well-formed row of its key in the batch.
LastOfKey(rows, i) ==
  /\ WellFormed(rows[i])
  /\ \A j \in (i + 1) .. Len(rows) :
       ~(WellFormed(rows[j]) /\ rows[j].location_id = rows[i].location_id
                             /\ rows[j].datetime = rows[i].datetime)

\* C10: after a run, the forecast table holds for each key of the batch exactly
\* one record, with the values of the last row of that key.
C10_LastRowWins ==
  (hpc = "idle" /\ runs > 0) =>
    \A i \in 1 .. Len(hrows) :
      LastOfKey(hrows, i) =>
        {x \in ddb : x.loc = hrows[i].location_id /\ x.ts = hrows[i].datetime}
          = {ForecastItem(hrows[i])}

\* ------------------------------------------------------------------ C11
\* Every cell of the row that the handler converts is a number or absent.
Parses(row) ==
  /\ WellFormed(row)
  /\ \A f \in CondFields : row.cond[f] # Unparseable
  /\ \A l \in Levels : row.y[l] # Unparseable
StoredKey(row) == \E x \in ddb : x.loc = row.location_id /\ x.ts = row.datetime

\* C11: when a run is over, it was not cut short by a failed write, no row
\* that fails to parse is in the store, the rows that failed to parse or were
\* not stored are all counted in errors, and the rows that parsed and were
\* stored are exactly those counted in written.
C11_FailedRowsCountedAndSkipped ==
  (hpc = "idle" /\ runs > 0) =>
    /\ hresult.status # "raised"
    /\ \A i \in 1 .. Len(hrows) : ~Parses(hrows[i]) => ~StoredKey(hrows[i])
    /\ hresult.errors =
         Cardinality({i \in 1 .. Len(hrows) : ~Parses(hrows[i]) \/ ~StoredKey(hrows[i])})
    /\ hresult.written =
         Cardinality({i \in 1 .. Len(hrows) : Parses(hrows[i]) /\ StoredKey(hrows[i])})

\* ------------------------------------------------------------------ C12
\* C12: a run that had input files never ends by an exception: it returns
\* status "success" when errors = 0 and "partial" when errors > 0.
C12_NeverRaises ==
  (hpc = "idle" /\ runs > 0) =>
    /\ hresult.status \in {"success", "partial"}
    /\ (hresult.status = "success") <=> (hresult.errors = 0)

\* ------------------------------------------------------------------ C13
\* C13: once the rows of a run are written, no step of the run, failing or
\* not (a scan, an update or a pipeline that raises), changes the forecast
\* table or the written count, and the step that ends the run returns the
\* summary.
C13_WritesSurviveDetectionFailure ==
  [][ (hpc # "idle") =>
        /\ ddb' = ddb
        /\ hresult'.written = hresult.written
        /\ (hpc' = "idle" => hresult'.status \in {"success", "partial"}) ]_vars

\* A run that wrote a record has returned its summary although the pipeline
\* deleting the cache entries of the affected users raised.
C13_Witness ==
  /\ hpc = "idle" /\ hresult.status = "success" /\ hresult.written > 0
  /\ r_ok /\ affected_users # {} /\ hdeleted = {}
  /\ \E x \in ddb : x.loc = hrows[1].location_id /\ x.ts = hrows[1].datetime

\* ---------------------------------------------------------------- C14
\* The distributed cache read of a call fails: the service is unavailable, it
\* becomes so while the client is made, or the GET raises.
ReadFails(state, cond) ==
  \/ state = "unavailable"
  \/ state = "unset" /\ cond \in {"nourl", "down"}
  \/ cond = "error"

\* What a call returns when the distributed cache holds nothing: the
\* in-process list while it is fresh, else the list computed from the store.
EmptyCacheResult(ids_fail, failing) ==
  IF repo_latest_cache # << >> /\ (now - repo_latest_cache_time) < CACHE_TTL
  THEN repo_latest_cache
  ELSE SortByScoreDesc(QueryLatestPerLocation(
         IF ids_fail THEN << >> ELSE SeqOfLocs(locations_table), failing))

UpcomingWritten(l, now_ts) ==
  {i \in 1 .. Len(hrows) :
     /\ WellFormed(hrows[i])
     /\ hrows[i].location_id = l
     /\ StoredKey(hrows[i])
     /\ hrows[i].datetime >= now_ts}

\* C15: when the handler has processed all rows, for some start time of the
\* run, every location with a written row at or after that time has in the
\* latest projection the first such row of smallest timestamp, every other
\* location has no entry, and, when a cache client exists, the cache holds
\* the projection's entry under the location's latest key.
C15_LatestProjection ==
  (hpc \in {"scan", "invalidate"}) =>
    \E now_ts \in NowTs :
      \A l \in Locs :
        LET good == UpcomingWritten(l, now_ts)
            pos == PosOfLocation(latest_per_location, l)
        IN IF good = {} THEN pos = 0
           ELSE LET first == CHOOSE i \in good :
                               \A j \in good :
                                 \/ hrows[i].datetime < hrows[j].datetime
                                 \/ hrows[i].datetime = hrows[j].datetime /\ i <= j
                IN /\ pos # 0
                   /\ latest_per_location[pos].src = hrows[first]
                   /\ r_ok => /\ l \in DOMAIN latest_cache
                              /\ latest_cache[l] = CacheData(hrows[first])

\* ---------------------------------------------------------------- C16
\* spots holds, for each location of S with a forecast record, the record of
\* the location with the greatest surfTimestamp, and nothing else.
LatestPerLocationOf(spots, S) ==
  /\ LocsOf(spots) = {l \in S : \E it \in ddb : it.loc = l}
  /\ Len(spots) = Cardinality(LocsOf(spots))
  /\ \A i \in 1 .. Len(spots) :
       /\ spots[i] \in ddb
       /\ \A o \in ddb : o.loc = spots[i].loc => o.ts <= spots[i].ts

\* The source a call of _get_all_spots_raw has to answer from.
PreferredSource(rcond) ==
  IF ~ReadFails(cache_client, rcond) /\ all_spots_cache.present THEN "distributed"
  ELSE IF repo_latest_cache # << >> /\ (now - repo_latest_cache_time) < CACHE_TTL THEN "process"
  ELSE "store"

\* C16 as the specification states it: the distributed cache is consulted
\* first, then the in-process cache, then the store, and the view computed
\* from the store holds the latest record of every location that has a
\* forecast record.
C16_LatestPerLocationOfStore ==
  [][ (lresp'.n # lresp.n) =>
        /\ lresp'.src = PreferredSource(lresp'.rcond)
        /\ (lresp'.src = "store" => LatestPerLocationOf(lresp'.spots, Locs)) ]_vars

\* C16 as the code has it: the same order of sources, and the view computed
\* from the store holds the latest record of every location that is listed in
\* the locations table, whose query succeeded and that has a forecast record;
\* when the scan of the locations table fails the view is empty.
C16_LatestPerListedLocation ==
  [][ (lresp'.n # lresp.n) =>
        /\ lresp'.src = PreferredSource(lresp'.rcond)
        /\ (lresp'.src = "distributed" => lresp'.spots = all_spots_cache.spots)
        /\ (lresp'.src = "process" => lresp'.spots = repo_latest_cache)
        /\ (lresp'.src = "store" =>
              IF lresp'.ids_fail THEN lresp'.spots = << >>
              ELSE LatestPerLocationOf(lresp'.spots, locations_table \ lresp'.failing)) ]_vars

\* A view computed from the store that holds a record of a location which has
\* an older record as well.
C16_Witness ==
  /\ lresp.src = "store"
  /\ ~lresp.ids_fail
  /\ \E i \in 1 .. Len(lresp.spots) :
       /\ lresp.spots[i] \in ddb
       /\ \E o \in ddb : o.loc = lresp.spots[i].loc /\ o.ts < lresp.spots[i].ts

\* ---------------------------------------------------------------- C17
\* The spots of the call that are not in its result.
LeftOut == {i \in 1 .. Len(nearby.spots) :
              \A k \in 1 .. Len(nearby.result) : nearby.result[k].loc # nearby.spots[i].loc}

\* C17: get_nearby_spots returns min(limit, n) of the n spots it was given,
\* each once and with its distance, in ascending order of distance, and no spot
\* left out is nearer than a spot returned; over a spot at 500 km and a spot at
\* 10 km, with limit 1, it returns the spot at 10 km.
C17_NearestFirst ==
  nearby.called =>
    LET n == Len(nearby.spots)
        r == nearby.result
    IN /\ Len(r) = (IF nearby.limit < n THEN nearby.limit ELSE n)
       /\ \A k \in 1 .. Len(r) :
            /\ \E i \in 1 .. n : nearby.spots[i].loc = r[k].loc /\ nearby.spots[i].lng = r[k].lng
            /\ r[k].distance = HaversineRounded(nearby.lng, r[k].lng)
            /\ \A m \in 1 .. Len(r) : k < m => r[k].distance <= r[m].distance /\ r[k].loc # r[m].loc
            /\ \A i \in LeftOut :
                 HaversineRounded(nearby.lng, nearby.spots[i].lng) >= r[k].distance
       /\ (/\ nearby.lng = 0 /\ nearby.limit = 1 /\ n = 2
           /\ nearby.spots[1].lng = 4497 /\ nearby.spots[2].lng = 90)
          => r = << [loc |-> nearby.spots[2].loc, lng |-> 90, distance |-> 1001] >>

\* A call over a far spot followed by two nearer ones, with limit 2: the result
\* starts with a spot that was not first and leaves the far spot out.
C17_Witness ==
  /\ nearby.called
  /\ nearby.limit = 2
  /\ Len(nearby.spots) = 3
  /\ nearby.spots[1].lng = 4497
  /\ Len(nearby.result) = 2
  /\ nearby.result[1].loc # nearby.spots[1].loc
  /\ nearby.result[1].distance < nearby.result[2].distance
  /\ LeftOut = {1}

\* ---------------------------------------------------------------- C18
NoSharedUsername(table) ==
  \A a, b \in table : a.username = b.username => a = b
Registered(username) == \E row \in users : row.username = username
RegisterErrors == {"PASSWORD_MISMATCH", "CONSENT_REQUIRED", "USERNAME_EXISTS"}
\* The step ends the register call of p.
Outcome(p) == reg'[p] # reg[p] /\ reg'[p].pc = "idle"

\* C18 as it is stated: no two users share a username; a call whose username
\* is registered returns USERNAME_EXISTS, a call with differing passwords
\* returns PASSWORD_MISMATCH, a call without consent returns CONSENT_REQUIRED,
\* and each error outcome leaves the users table unchanged.
C18_EachErrorForItsCondition ==
  [][ /\ NoSharedUsername(users')
      /\ \A p \in DOMAIN reg :
           Outcome(p) =>
             /\ Registered(reg'[p].username) /\ reg'[p].code # "success"
                  => reg'[p].code = "USERNAME_EXISTS"
             /\ ~reg'[p].pw_ok => reg'[p].code = "PASSWORD_MISMATCH"
             /\ ~reg'[p].consent => reg'[p].code = "CONSENT_REQUIRED"
             /\ reg'[p].code \in RegisterErrors => users' = users ]_vars

\* C18 with the order of the checks: no two users share a username; a call
\* with differing passwords returns PASSWORD_MISMATCH; otherwise a call without
\* consent returns CONSENT_REQUIRED; otherwise a call whose username is
\* registered when the call checks it returns USERNAME_EXISTS; a call that
\* ends in another way than success - one of the three codes, or the
\* uniqueness error of a username registered after the check - leaves the
\* users table unchanged, and a successful call adds its user.
C18_ErrorsInOrderOfChecks ==
  [][ /\ NoSharedUsername(users')
      /\ \A p \in DOMAIN reg :
           Outcome(p) =>
             /\ ~reg'[p].pw_ok => reg'[p].code = "PASSWORD_MISMATCH"
             /\ reg'[p].pw_ok /\ ~reg'[p].consent => reg'[p].code = "CONSENT_REQUIRED"
             /\ (reg[p].pc = "idle" /\ reg'[p].pw_ok /\ reg'[p].consent
                   /\ Registered(reg'[p].username))
                  => reg'[p].code = "USERNAME_EXISTS"
             /\ reg'[p].code \in RegisterErrors \cup {"raised"} => users' = users
             /\ reg'[p].code = "raised" => reg[p].pc = "create" /\ Registered(reg[p].username)
             /\ reg'[p].code = "success" =>
                  /\ ~Registered(reg[p].username)
                  /\ \E row \in users' : row.username = reg[p].username ]_vars

\* Two calls for one username passed the check together: one registered the
\* user, the other ended with the uniqueness error; and a call for a
\* registered username got USERNAME_EXISTS.
C18_Witness ==
  /\ \E p, q \in DOMAIN reg :
       /\ reg[p].code = "raised" /\ reg[q].code = "USERNAME_EXISTS"
       /\ reg[p].username = reg[q].username
  /\ users # {}

\* ---------------------------------------------------------------- C19
\* C19: in every state a caller can observe, the date index is the grouping
\* by date of the current snapshot.
C19_IndexOfCurrentSnapshot ==
  date_index = BuildDateIndex(scan_cache)

\* ---------------------------------------------------------------- C20
\* C20: a call whose scan failed returns - rather than raising - only when a
\* snapshot existed, and the failure leaves the snapshot, the date index and
\* the result cache of that moment as they were.
C20_ScanFailureKeepsOrPropagates ==
  [][ (resp' # resp /\ resp'.scan_failed) =>
        /\ scan_cache # << >>
        /\ scan_cache' = scan_cache
        /\ date_index' = date_index
        /\ \A key \in DOMAIN spots_for_date_cache :
             key \in DOMAIN spots_for_date_cache'
             /\ spots_for_date_cache'[key] = spots_for_date_cache[key] ]_vars

\* ---------------------------------------------------------------- C21
\* C21: a refresh never replaces the installed snapshot with one read from an
\* older state of the store: an item of the snapshot that is still the item
\* the store holds is in the snapshot that replaces it.  (The store of this
\* specification only gains items and newer values, so a list that lacks such
\* an item was read before the installed one.)
C21_RefreshNeverGoesBack ==
  [][ \A i \in 1 .. Len(scan_cache) :
        scan_cache[i] \in ddb =>
          \E j \in 1 .. Len(scan_cache') : scan_cache'[j] = scan_cache[i] ]_vars

\* ---------------------------------------------------------------- C22
RECURSIVE InFlight(_)
InFlight(R) ==
  IF R = {} THEN 0
  ELSE LET r == CHOOSE x \in R : TRUE IN fan[r].running + InFlight(R \ {r})

\* C22: at no time are more than 20 per-location store queries in flight, for
\* any number of requests running concurrently.
C22_AtMostTwentyInFlight == InFlight(Callers) <= SEMAPHORE

\* ------------------------------------------------ C23
\* C23: for every date that has at least one record and every time value,
\* get_spots_for_date(date, time) returns a non-empty list.  Stated here for
\* the favourable case only: the scan of the locations table and every
\* per-location query succeeded, and a listed location has a record on the
\* date.
C23_NonEmptyForEveryTime ==
  ( /\ rresp.key # NoKey /\ rresp.key[2] # NoTime
    /\ ~rresp.failed
    /\ LocsWithRecordOn(rresp.key[1]) \cap locations_table # {} ) =>
    /\ ~rresp.raised
    /\ rresp.spots # << >>

\* ------------------------------------------------ C30
ComputedWithTime ==
  /\ rresp.key # NoKey /\ ~rresp.hit /\ ~rresp.failed /\ ~rresp.raised
  /\ rresp.key[2] \notin {NoTime, BadTime}

\* The listed locations with a record of date D in the hours H, H+1, H+2.
WindowLocs(D, time) ==
  {it.loc : it \in {x \in ddb : /\ DateOf(x.ts) = D
                                /\ x.loc \in locations_table
                                /\ Hour(HHMM(x.ts)) \in Hour(time) .. Hour(time) + 2}}

C28_OutageResultsNotCached ==
  [][ /\ ( \/ repo_latest_cache' # repo_latest_cache
           \/ (all_spots_cache'.present /\ all_spots_cache' # all_spots_cache) )
         => \/ lresp'.failing = {}
            \/ lresp'.spots =
                 SortByScoreDesc(QueryLatestPerLocation(SeqOfLocs(locations_table), {}))
      /\ repo_cache' # repo_cache
         => \/ ~rfailed
            \/ LocsOf(rresp'.spots) = LocsWithRecordOn(rkey[1]) \cap locations_table ]_vars

StoredAt(t) == CHOOSE it \in saved_list : KeyOf(it) = <<t.userId, t.sortKey>>

\* C25: a selection the run flagged holds the values of the new record in its
\* five tracked fields (as the forecast table stores them) and the grade of
\* its level, and its changeMessage names exactly the tracked fields whose
\* value changed.
C25_FlaggedCopyAndMessage ==
  hpc \in {"scan", "items", "invalidate"} =>
    \A t \in hupdates :
      /\ \E it \in saved_list : KeyOf(it) = <<t.userId, t.sortKey>>
      /\ StoredAt(t).flagChange
      /\ StoredAt(t).m = [f \in TrackedFields |-> ToDecimal(t.ingested[f])]
      /\ StoredAt(t).surfGrade = SurfGrade(t.ingested["surfScore"])
      /\ {c.field : c \in StoredAt(t).changeMessage} =
           {f \in TrackedFields : t.old[f] # None /\ Abs(t.ingested[f] - t.old[f]) > Tolerance}

\* ------------------------------------------------ C26
\* C26: in every reachable state a saved selection has a changeMessage exactly
\* when its flagChange is true; a selection that comes into being by save_item
\* is unflagged, only a flagging step of change detection turns the flag on,
\* and a flag goes off only by acknowledge_change (or with the selection).
C26_MessageIffFlagged ==
  /\ [](\A it \in saved_list : it.flagChange <=> it.changeMessage # {})
  /\ [][ \A k \in {KeyOf(x) : x \in saved_list'} :
           LET after == CHOOSE x \in saved_list' : KeyOf(x) = k
               was == ItemsAt(saved_list, k)
               before == CHOOSE x \in was : TRUE
           IN /\ (spc[1] = "put" /\ spc'[1] = "idle" /\ was = {}) => ~after.flagChange
              /\ (after.flagChange /\ (was = {} \/ ~before.flagChange))
                   => flagged' = flagged + 1
              /\ (was # {} /\ before.flagChange /\ ~after.flagChange)
                   => UNCHANGED <<ingestVars, apiVars>> ]_vars

\* A selection that change detection flagged with the ADVANCED score of the
\* ingested row and that was acknowledged afterwards.
C26_Witness ==
  \E it \in saved_list :
    /\ it.LocationId = SavedLoc
    /\ it.m["surfScore"] = 6500000
    /\ ~it.flagChange /\ it.changeMessage = {}

\* ------------------------------------------------ C27
\* C27: a selection removed by delete_item does not exist afterwards unless
\* save_item is called again: no flagging step of a run brings a key into the
\* saved-list store that the store did not hold.
C27_DeletedStaysDeleted ==
  [][ flagged' = flagged + 1 =>
        {KeyOf(x) : x \in saved_list'} \subseteq {KeyOf(x) : x \in saved_list} ]_vars

\* ------------------------------------------------ C29
\* The second of two runs with the same batch is under way or has returned.
InSecondRun == (runs = 1 /\ hpc # "idle") \/ runs = 2

FlaggedByFirstRun(old) == old.flagChange \/ KeyOf(old) \in flaggedDone

====
